---- MODULE Spec2Model ----
(***************************************************************************)
(* A model of libfirm's amd64 backend emitter and attribute predicates:    *)
(*   ir/be/amd64/amd64_emitter.c    control-flow emission, block and       *)
(*                                  function sequencing                    *)
(*   ir/be/amd64/amd64_new_nodes.c  attribute equality predicates          *)
(*                                                                         *)
(* Specifications:                                                         *)
(*   Spec    amd64_emit_function driven over several functions             *)
(*   SpecCF  emission of one control-flow node (jmp, jcc, jmp_switch)      *)
(*   SpecEq  the attribute equality predicates applied to pairs of records *)
(*   SpecIa32, SpecRegs, SpecRO  the ia32 predicates, equality across      *)
(*           register allocation, emission and dumping as readers          *)
(*   SpecFmt   size suffixes, register names, addresses and relocations    *)
(*   SpecEmitf the template interpreter amd64_emitf and its callers        *)
(***************************************************************************)
EXTENDS Integers, Sequences, FiniteSets, TLC

(* ---------------------------------------------------------------- bounds *)

\* blocks of one function's block schedule
MaxBlocks == 3
\* entries of a switch table
MaxEntries == 2
\* largest case value of a switch table (the table is normalised to start at 0)
MaxCase == 2
\* scheduled nodes of a function emitted whole by amd64_emit_function
MaxFuncNodes == 4

(* ----------------------------------------------------- x86 condition codes *)

x86_cc_negated == 1
x86_cc_additional_float_cases == 16
x86_cc_float_parity_cases == 32

x86_cc_below == 2
x86_cc_equal == 4
x86_cc_below_equal == 6
x86_cc_less == 12
x86_cc_less_equal == 14
x86_cc_above_equal == 3
x86_cc_above == 7
x86_cc_greater_equal == 13
x86_cc_greater == 15
x86_cc_float_below == 50
x86_cc_float_equal == 52
x86_cc_float_below_equal == 54
x86_cc_float_unordered_above_equal == 51
x86_cc_float_not_equal == 53
x86_cc_float_unordered_above == 55
x86_cc_float_unordered_below == 18
x86_cc_float_unordered_below_equal == 22
x86_cc_float_above_equal == 19
x86_cc_float_above == 23

\* the sixteen hardware codes, the six parity codes and the four additional
\* float codes: every value of x86_condition_code_t that has a name
ConditionCodes == (0 .. 15) \cup (50 .. 55) \cup {18, 19, 22, 23}

\* cc & mask, for a mask that is a single bit
HasBit(cc, mask) == (cc \div mask) % 2 = 1

\* code ^ x86_cc_negated
x86_negate_condition_code(cc) ==
    IF HasBit(cc, x86_cc_negated) THEN cc - x86_cc_negated
                                  ELSE cc + x86_cc_negated

\* the table of x86_invert_condition_code: the comparison with its operands
\* swapped
x86_invert_condition_code(cc) ==
    CASE cc = x86_cc_below                       -> x86_cc_above
      [] cc = x86_cc_below_equal                 -> x86_cc_above_equal
      [] cc = x86_cc_above                       -> x86_cc_below
      [] cc = x86_cc_above_equal                 -> x86_cc_below_equal
      [] cc = x86_cc_less                        -> x86_cc_greater
      [] cc = x86_cc_less_equal                  -> x86_cc_greater_equal
      [] cc = x86_cc_greater                     -> x86_cc_less
      [] cc = x86_cc_greater_equal               -> x86_cc_less_equal
      [] cc = x86_cc_float_below                 -> x86_cc_float_above
      [] cc = x86_cc_float_below_equal           -> x86_cc_float_above_equal
      [] cc = x86_cc_float_above                 -> x86_cc_float_below
      [] cc = x86_cc_float_above_equal           -> x86_cc_float_below_equal
      [] cc = x86_cc_float_unordered_below       -> x86_cc_float_unordered_above
      [] cc = x86_cc_float_unordered_below_equal -> x86_cc_float_unordered_above_equal
      [] cc = x86_cc_float_unordered_above       -> x86_cc_float_unordered_below
      [] cc = x86_cc_float_unordered_above_equal -> x86_cc_float_unordered_below_equal
      [] OTHER                                   -> cc

(* ------------------------------------------------------------------ state *)

VARIABLES
    be_options,        \* [verbose_asm, pic_style]
    pc,                \* where the driver / amd64_emit_function stands
    irg,               \* the graph being emitted, or NoIrg
    nfuncs,            \* functions handed to amd64_emit_function so far
    bi,                \* index into blk_sched of the block being emitted
    ni,                \* nodes of that block emitted so far
    omit_fp,           \* static bool omit_fp
    frame_type_size,   \* static int frame_type_size
    callframe_offset,  \* static int callframe_offset
    layout,            \* static be_stack_layout_t *layout (the owning irg)
    writer,            \* for each static, the irg whose emission wrote it last
    observed,          \* the irgs whose writes the last step read from statics
    out,               \* the output stream, as a sequence of events
    dwarf,             \* the debug-frame sink: [offset, n] last value and count
    blk,               \* the block of the node emitted last
    node,              \* the node emitted / the records compared last
    text,              \* the lines the last node emission wrote
    cmp,               \* the two attribute records handed to a predicate
    result             \* what the predicate returned

vars == <<be_options, pc, irg, nfuncs, bi, ni, omit_fp, frame_type_size,
          callframe_offset, layout, writer, observed, out, dwarf, blk, node,
          text, cmp, result>>

NoCmp == [kind |-> "none"]
NoResult == "none"

NoIrg == [id |-> 0]
NoBlock == 0
NoNode == [kind |-> "none"]
NoEntity == "NULL"

BE_PIC_NONE == "BE_PIC_NONE"
PicStyles == {BE_PIC_NONE, "BE_PIC_ELF_PLT", "BE_PIC_ELF_NO_PLT"}


(* ------------------------------------------------ graphs and the schedule *)

\* the block schedules be_create_block_schedule hands out, for functions of
\* blocks 1..n: block numbers are names only, so the orders are taken up to
\* renaming; the rotations keep a block's number and its position apart
BlockSchedules ==
    UNION { { [i \in 1 .. n |-> ((i + r - 1) % n) + 1] : r \in 0 .. n - 1 }
            : n \in 1 .. MaxBlocks }

Blocks(sched) == { sched[i] : i \in 1 .. Len(sched) }

\* be_emit_init_cf_links stores in every block's link the block scheduled
\* before it, NULL for the first; be_emit_get_prev_block reads that link
be_emit_get_prev_block(sched, target) ==
    LET i == CHOOSE k \in 1 .. Len(sched) : sched[k] = target
    IN  IF i = 1 THEN NoBlock ELSE sched[i - 1]

\* be_emit_get_cfop_target: the block a control-flow Proj or jump leads to
be_emit_get_cfop_target(n) == n.target

(* --------------------------------------------------- control-flow emission *)

fallthrough_possible_swapped(sched, block, target) ==
    be_emit_get_prev_block(sched, block) = target

fallthrough_possible(sched, block, target) ==
    be_emit_get_prev_block(sched, target) = block

\* amd64_emitf(node, "jmp %L") and its siblings: one line naming the label
\* of node's control-flow target; via is the node handed to amd64_emitf
LineJmp(n)      == [op |-> "jmp", via |-> n.id, label |-> be_emit_get_cfop_target(n)]
LineJp(n)       == [op |-> "jp", via |-> n.id, label |-> be_emit_get_cfop_target(n)]
LineJcc(n, cc)  == [op |-> "jcc", cc |-> cc, via |-> n.id,
                    label |-> be_emit_get_cfop_target(n)]
LineComment(n)  == [op |-> "/* fallthrough */", via |-> n.id,
                    label |-> be_emit_get_cfop_target(n)]
\* amd64_emitf(node, "jmp %*AM")
LineJmpStarAM   == [op |-> "jmp *", operand |-> "AM"]

emit_amd64_jmp_always(sched, opts, block, n) == << LineJmp(n) >>

emit_amd64_jmp(sched, opts, block, n) ==
    IF fallthrough_possible(sched, block, be_emit_get_cfop_target(n))
    THEN IF opts.verbose_asm THEN << LineComment(n) >> ELSE << >>
    ELSE << LineJmp(n) >>

is_amd64_fucomi(flags) == flags.op = "amd64_fucomi"

determine_final_cc_ignore_flag(flags, cc) ==
    IF is_amd64_fucomi(flags) THEN x86_invert_condition_code(cc) ELSE cc

determine_final_cc(flags, cc) ==
    IF is_amd64_fucomi(flags) /\ flags.x87.reverse
    THEN x86_invert_condition_code(cc)
    ELSE cc

\* the parity test of emit_amd64_jcc, with the two edges exchanged
emit_jcc_parity_swapped(cc, proj_true, proj_false) ==
    IF HasBit(cc, x86_cc_float_parity_cases)
    THEN IF HasBit(cc, x86_cc_negated) THEN << LineJp(proj_false) >>
                                       ELSE << LineJp(proj_true) >>
    ELSE << >>

\* lines 855-863: the parity test emitted before the conditional jump
emit_jcc_parity(cc, proj_true, proj_false) ==
    IF HasBit(cc, x86_cc_float_parity_cases)
    THEN IF HasBit(cc, x86_cc_negated) THEN << LineJp(proj_true) >>
                                       ELSE << LineJp(proj_false) >>
    ELSE << >>

emit_amd64_jcc_no_swap(sched, opts, block, irn) ==
    LET cc == determine_final_cc(irn.eflags, irn.cc)
        pt == irn.projs["pn_Cond_true"]
        pf == irn.projs["pn_Cond_false"]
    IN  emit_jcc_parity(cc, pt, pf) \o << LineJcc(pt, cc) >> \o << LineJmp(pf) >>

emit_amd64_jcc(sched, opts, block, irn) ==
    LET cc0         == determine_final_cc(irn.eflags, irn.cc)
        target_true == be_emit_get_cfop_target(irn.projs["pn_Cond_true"])
        swap        == fallthrough_possible(sched, block, target_true)
        proj_true   == IF swap THEN irn.projs["pn_Cond_false"]
                               ELSE irn.projs["pn_Cond_true"]
        proj_false  == IF swap THEN irn.projs["pn_Cond_true"]
                               ELSE irn.projs["pn_Cond_false"]
        cc          == IF swap THEN x86_negate_condition_code(cc0) ELSE cc0
        target_false == be_emit_get_cfop_target(proj_false)
    IN  emit_jcc_parity(cc, proj_true, proj_false)
        \o << LineJcc(proj_true, cc) >>
        \o ( IF fallthrough_possible(sched, block, target_false)
             THEN IF opts.verbose_asm THEN << LineComment(proj_false) >> ELSE << >>
             ELSE << LineJmp(proj_false) >> )


(* ------------------------------------------------------------- jump tables *)

mode_Iu == [size_bits |-> 32, sign |-> "unsigned"]
mode_Lu == [size_bits |-> 64, sign |-> "unsigned"]

\* the target a table slot names: the Proj of the entry whose range holds
\* the value, the default Proj (number 0) where no entry does
SlotProj(irn, val) ==
    IF \E e \in 1 .. Len(irn.table) :
           irn.table[e].min <= val /\ val <= irn.table[e].max
    THEN LET e == CHOOSE k \in 1 .. Len(irn.table) :
                      irn.table[k].min <= val /\ val <= irn.table[k].max
         IN  irn.projs[irn.table[e].pn]
    ELSE irn.projs[0]

\* the number of slots: the largest case value of the table, plus one
TableLength(irn) ==
    LET maxs == { irn.table[e].max : e \in 1 .. Len(irn.table) }
    IN  IF maxs = {} THEN 1
        ELSE (CHOOSE m \in maxs : \A x \in maxs : x <= m) + 1

emit_jumptable_target_always_relative(opts, table, proj_x) ==
    [label |-> be_emit_get_cfop_target(proj_x), minus |-> table]

emit_jumptable_target(opts, table, proj_x) ==
    [label |-> be_emit_get_cfop_target(proj_x),
     minus |-> IF opts.pic_style # BE_PIC_NONE THEN table ELSE NoEntity]

\* be_emit_jump_table: the table's label, then one slot per value 0..length-1,
\* each of entry_mode's size and naming what emit_target writes
be_emit_jump_table(opts, irn, table_entity, entry_mode) ==
    << [op |-> "table", entity |-> table_entity] >>
    \o [ i \in 1 .. TableLength(irn) |->
           [op |-> "slot", size_bits |-> entry_mode.size_bits,
            sign |-> entry_mode.sign,
            target |-> emit_jumptable_target(opts, table_entity,
                                             SlotProj(irn, i - 1))] ]

emit_amd64_jmp_switch(sched, opts, block, irn) ==
    LET entry_mode == IF opts.pic_style # BE_PIC_NONE THEN mode_Iu ELSE mode_Lu
    IN  << LineJmpStarAM >>
        \o be_emit_jump_table(opts, irn, irn.table_entity, entry_mode)

(* ------------------------------------------- the control-flow nodes emitted *)

\* the nodes that can produce the flags a jcc reads
FlagsProducers ==
    { [op |-> "amd64_fucomi", x87 |-> [reverse |-> r]] : r \in BOOLEAN }
    \cup { [op |-> "amd64_cmp"], [op |-> "amd64_ucomis"] }

JmpNodes(sched) ==
    { [kind |-> "amd64_jmp", id |-> "jmp", target |-> t] : t \in Blocks(sched) }

CondProj(pn, t) == [id |-> pn, target |-> t]

\* the backend runs on graphs without critical edges, so the two Projs of a
\* conditional branch lead to different blocks
CondTargets(sched) ==
    { t \in [true : Blocks(sched), false : Blocks(sched)] : t.true # t.false }

JccNodes(sched) ==
    { [kind |-> "amd64_jcc", cc |-> c, eflags |-> f,
       projs |-> [pn_Cond_false |-> CondProj("pn_Cond_false", t.false),
                  pn_Cond_true  |-> CondProj("pn_Cond_true", t.true)]]
      : c \in ConditionCodes, f \in FlagsProducers, t \in CondTargets(sched) }

\* switch tables: up to MaxEntries entries of ascending, disjoint ranges
\* within 0..MaxCase; entry e leads to Proj number e
SwitchTables ==
    { t \in UNION { [1 .. n -> [min : 0 .. MaxCase, max : 0 .. MaxCase,
                                pn : 1 .. MaxEntries]] : n \in 0 .. MaxEntries } :
        /\ \A e \in 1 .. Len(t) : t[e].min <= t[e].max /\ t[e].pn = e
        /\ \A e \in 1 .. Len(t) - 1 : t[e].max < t[e + 1].min }

SwitchNodes(sched) ==
    UNION { { [kind |-> "amd64_jmp_switch", table |-> t, table_entity |-> "tbl",
               projs |-> [pn \in 0 .. Len(t) |-> [id |-> pn, target |-> tg[pn]]]]
              : tg \in [0 .. Len(t) -> Blocks(sched)] }
            : t \in SwitchTables }

(* ------------------------------------------------------------------ SpecCF *)

OptionSets == [verbose_asm : BOOLEAN, pic_style : PicStyles]

CFIrgs ==
    { [id |-> 1, omit_fp |-> FALSE, frame_type_size |-> 0, blk_sched |-> s,
       nsched |-> [b \in 1 .. Len(s) |-> 1]] : s \in BlockSchedules }

InitCF ==
    /\ be_options \in OptionSets
    /\ irg \in CFIrgs
    /\ pc = "cf"
    /\ nfuncs = 1
    /\ bi = 0
    /\ ni = 0
    /\ omit_fp = FALSE
    /\ frame_type_size = 0
    /\ callframe_offset = 0
    /\ layout = 1
    /\ writer = [omit_fp |-> 1, frame_type_size |-> 0, callframe_offset |-> 0,
                 layout |-> 1]
    /\ observed = {}
    /\ out = << >>
    /\ dwarf = [reg |-> "rbp", offset |-> 16, n |-> 1]
    /\ blk = NoBlock
    /\ node = NoNode
    /\ text = << >>
    /\ cmp = NoCmp
    /\ result = NoResult

\* one node is emitted per run: pc goes from "cf" to "emitted"
CFFrame ==
    /\ pc' = "emitted"
    /\ UNCHANGED <<be_options, irg, nfuncs, bi, ni, omit_fp, frame_type_size,
                   callframe_offset, layout, writer, observed, out, dwarf,
                   cmp, result>>

\* be_emit_node dispatching to emit_amd64_jmp
EmitJmp ==
    /\ pc = "cf"
    /\ \E b \in Blocks(irg.blk_sched), n \in JmpNodes(irg.blk_sched) :
          /\ blk' = b
          /\ node' = n
          /\ text' = emit_amd64_jmp(irg.blk_sched, be_options, b, n)
    /\ CFFrame

\* be_emit_node dispatching to emit_amd64_jcc
EmitJcc ==
    /\ pc = "cf"
    /\ \E b \in Blocks(irg.blk_sched), n \in JccNodes(irg.blk_sched) :
          /\ blk' = b
          /\ node' = n
          /\ text' = emit_amd64_jcc(irg.blk_sched, be_options, b, n)
    /\ CFFrame

\* be_emit_node dispatching to emit_amd64_jmp_switch
EmitJmpSwitch ==
    /\ pc = "cf"
    /\ \E b \in Blocks(irg.blk_sched), n \in SwitchNodes(irg.blk_sched) :
          /\ blk' = b
          /\ node' = n
          /\ text' = emit_amd64_jmp_switch(irg.blk_sched, be_options, b, n)
    /\ CFFrame

NextCF == EmitJmp \/ EmitJcc \/ EmitJmpSwitch

SpecCF == InitCF /\ [][NextCF]_vars


(* ------------------------------------------- claims on control-flow emission *)

\* block b is scheduled directly after block a
Follows(sched, a, b) ==
    \E i \in 1 .. Len(sched) - 1 : sched[i] = a /\ sched[i + 1] = b

LinesOf(ops) == { i \in 1 .. Len(text) : text[i].op \in ops }

JmpEmitted == pc = "emitted" /\ node.kind = "amd64_jmp"
JccEmitted == pc = "emitted" /\ node.kind = "amd64_jcc"
SwitchEmitted == pc = "emitted" /\ node.kind = "amd64_jmp_switch"

TrueTarget == node.projs["pn_Cond_true"].target
FalseTarget == node.projs["pn_Cond_false"].target

\* C1: an unconditional jump writes "jmp <label of T>" if and only if its
\* target T is not scheduled directly after its block; when T is, it writes
\* nothing but the fallthrough comment, and that only under verbose_asm.
C1_JmpIffNotFallthrough ==
    JmpEmitted =>
        LET jump    == [op |-> "jmp", via |-> "jmp", label |-> node.target]
            comment == [op |-> "/* fallthrough */", via |-> "jmp",
                        label |-> node.target]
        IN  IF Follows(irg.blk_sched, blk, node.target)
            THEN text = IF be_options.verbose_asm THEN << comment >> ELSE << >>
            ELSE text = << jump >>

\* a jump to the block scheduled next was elided, leaving the comment
C1_Witness ==
    /\ JmpEmitted
    /\ Follows(irg.blk_sched, blk, node.target)
    /\ be_options.verbose_asm
    /\ Len(text) = 1 /\ text[1].op = "/* fallthrough */"

\* the condition code emit_amd64_jcc reads from the node, after the
\* correction for a reversed fucomi
FinalCC ==
    IF node.eflags.op = "amd64_fucomi" /\ node.eflags.x87.reverse
    THEN x86_invert_condition_code(node.cc)
    ELSE node.cc

\* the true edge falls through and the false edge does not
C2_Case ==
    /\ JccEmitted
    /\ Follows(irg.blk_sched, blk, TrueTarget)
    /\ ~Follows(irg.blk_sched, blk, FalseTarget)

\* C2 as stated: with the true target B scheduled next and the false target
\* C not, exactly one conditional jump is written, to C with the negated
\* code, and no jump instruction names B.
C2_Original ==
    C2_Case =>
        /\ Cardinality(LinesOf({"jcc", "jp"})) = 1
        /\ \A i \in LinesOf({"jcc"}) :
              /\ text[i].label = FalseTarget
              /\ text[i].cc = x86_negate_condition_code(FinalCC)
        /\ \A i \in LinesOf({"jmp", "jp", "jcc"}) : text[i].label # TrueTarget

\* C2, amended: with the true target B scheduled next and the false target C
\* not, exactly one j<cc> is written, to C with the negated code, and no jmp;
\* if the negated code is a float parity case one jp precedes the j<cc>, to C
\* when the negated code has the negated bit and to B otherwise; else no jp.
C2_EdgeSwap ==
    C2_Case =>
        LET cc  == x86_negate_condition_code(FinalCC)
            jcc == [op |-> "jcc", cc |-> cc, via |-> "pn_Cond_false",
                    label |-> FalseTarget]
            jp  == IF HasBit(cc, x86_cc_negated)
                   THEN [op |-> "jp", via |-> "pn_Cond_false", label |-> FalseTarget]
                   ELSE [op |-> "jp", via |-> "pn_Cond_true", label |-> TrueTarget]
            n   == Len(text)
        IN  /\ LinesOf({"jmp"}) = {}
            /\ Cardinality(LinesOf({"jcc"})) = 1
            /\ IF HasBit(cc, x86_cc_float_parity_cases)
               THEN n >= 2 /\ text[1] = jp /\ text[2] = jcc /\ LinesOf({"jp"}) = {1}
               ELSE n >= 1 /\ text[1] = jcc /\ LinesOf({"jp"}) = {}

\* the edges were exchanged under a parity code: jp to B, then j<cc> to C
C2_Witness ==
    /\ C2_Case
    /\ Len(text) >= 2
    /\ text[1].op = "jp" /\ text[1].label = TrueTarget
    /\ text[2].op = "jcc" /\ text[2].label = FalseTarget

C4_ParityJump ==
    JccEmitted =>
        /\ Cardinality(LinesOf({"jcc"})) = 1
        /\ \A j \in LinesOf({"jcc"}) :
              LET other == IF text[j].via = "pn_Cond_true" THEN "pn_Cond_false"
                                                          ELSE "pn_Cond_true"
              IN  IF HasBit(text[j].cc, x86_cc_float_parity_cases)
                  THEN /\ Cardinality(LinesOf({"jp"})) = 1
                       /\ \A i \in LinesOf({"jp"}) :
                             /\ i < j
                             /\ text[i].via = IF HasBit(text[j].cc, x86_cc_negated)
                                              THEN text[j].via ELSE other
                             /\ text[i].label = node.projs[text[i].via].target
                  ELSE LinesOf({"jp"}) = {}

\* a negated parity code: the jp goes by the same edge as the j<cc>
C4_Witness ==
    /\ JccEmitted
    /\ Len(text) >= 2
    /\ text[1].op = "jp" /\ text[2].op = "jcc"
    /\ HasBit(text[2].cc, x86_cc_negated)
    /\ text[1].via = text[2].via
    /\ TrueTarget # FalseTarget

\* C5: the code carried by the j<cc> is the node's code, inverted exactly once
\* if the flags come from a fucomi whose reverse flag is set and not inverted
\* for any other producer or a clear flag, and then negated if the true edge
\* falls through.
C5_ReverseCorrectedOnce ==
    JccEmitted =>
        LET reversed  == node.eflags.op = "amd64_fucomi" /\ node.eflags.x87.reverse
            corrected == IF reversed THEN x86_invert_condition_code(node.cc)
                                     ELSE node.cc
            final     == IF Follows(irg.blk_sched, blk, TrueTarget)
                         THEN x86_negate_condition_code(corrected)
                         ELSE corrected
        IN  \A j \in LinesOf({"jcc"}) : text[j].cc = final

\* a reversed fucomi whose code the inversion changes
C5_Witness ==
    /\ JccEmitted
    /\ node.eflags.op = "amd64_fucomi" /\ node.eflags.x87.reverse
    /\ x86_invert_condition_code(node.cc) # node.cc
    /\ ~Follows(irg.blk_sched, blk, TrueTarget)
    /\ \E j \in LinesOf({"jcc"}) : text[j].cc = x86_invert_condition_code(node.cc)

\* C9: a switch jump writes "jmp *<operand>" first and the jump table after
\* it; slot v names the label of the block its case value v leads to,
\* followed by "-<table entity>" if and only if pic_style is not BE_PIC_NONE,
\* and slots are 32-bit unsigned under PIC and 64-bit unsigned otherwise.
C9_JumpTable ==
    SwitchEmitted =>
        LET pic    == be_options.pic_style # BE_PIC_NONE
            slots  == LinesOf({"slot"})
            first  == CHOOSE i \in slots : \A k \in slots : i <= k
            Case(i) == i - first
            Target(v) ==
                IF \E e \in 1 .. Len(node.table) :
                       node.table[e].min <= v /\ v <= node.table[e].max
                THEN LET e == CHOOSE k \in 1 .. Len(node.table) :
                                  node.table[k].min <= v /\ v <= node.table[k].max
                     IN  node.projs[node.table[e].pn].target
                ELSE node.projs[0].target
        IN  /\ text[1] = [op |-> "jmp *", operand |-> "AM"]
            /\ slots # {}
            /\ \A i \in slots :
                  /\ i > 1
                  /\ text[i].target.label = Target(Case(i))
                  /\ text[i].target.minus = IF pic THEN node.table_entity ELSE NoEntity
                  /\ text[i].size_bits = IF pic THEN 32 ELSE 64
                  /\ text[i].sign = "unsigned"

\* a table with a hole, emitted without PIC: absolute 64-bit slots, the
\* hole's slot naming the default target
C9_Witness ==
    /\ SwitchEmitted
    /\ be_options.pic_style = BE_PIC_NONE
    /\ Len(node.table) = 1 /\ node.table[1].min = 1
    /\ node.projs[0].target # node.projs[1].target
    /\ Len(text) = node.table[1].max + 3
    /\ text[3].target = [label |-> node.projs[0].target, minus |-> NoEntity]
    /\ text[4].target = [label |-> node.projs[1].target, minus |-> NoEntity]


(* ----------------------------------------------- function emission (Spec) *)

\* the functions of the compilation unit, in the order the backend driver
\* hands their graphs to amd64_emit_function
Functions == << "f", "g" >>

\* frame type sizes and stack-pointer deltas of the graphs emitted
FrameSizes == {0, 16}
SpBiases == {-8, 0, 8}

RECURSIVE SumSeq(_)
SumSeq(ns) == IF ns = << >> THEN 0 ELSE Head(ns) + SumSeq(Tail(ns))

\* the node counts of the blocks of a function: every block ends in a
\* control-flow node, so none is empty
NodeCounts ==
    UNION { { ns \in [1 .. n -> 1 .. MaxFuncNodes] : SumSeq(ns) <= MaxFuncNodes }
            : n \in 1 .. MaxFuncNodes }

\* the graphs of function number k; its blocks are numbered in schedule
\* order, the start block first, and nsched[b] nodes are scheduled in block b
Irgs(k) ==
    { [id |-> k, entity |-> Functions[k], omit_fp |-> o,
       frame_type_size |-> s, blk_sched |-> [i \in 1 .. Len(ns) |-> i],
       start_block |-> 1, nsched |-> ns]
      : o \in BOOLEAN, s \in FrameSizes, ns \in NodeCounts }

\* the scheduled nodes as far as function emission reads them: the delta
\* amd64_get_sp_bias declares and whether the operand names an entity
SchedNodes == [kind : {"insn"}, sp_bias : SpBiases, entity : BOOLEAN]

\* be_emit_node for a plain instruction: one line
be_emit_node(n) == << [op |-> "insn", entity |-> n.entity] >>

Init ==
    /\ be_options = [verbose_asm |-> FALSE, pic_style |-> BE_PIC_NONE]
    /\ pc = "idle"
    /\ irg = NoIrg
    /\ nfuncs = 0
    /\ bi = 0
    /\ ni = 0
    /\ omit_fp = FALSE
    /\ frame_type_size = 0
    /\ callframe_offset = 0
    /\ layout = 0
    /\ writer = [omit_fp |-> 0, frame_type_size |-> 0, callframe_offset |-> 0,
                 layout |-> 0]
    /\ observed = {}
    /\ out = << >>
    /\ dwarf = [reg |-> "none", offset |-> 0, n |-> 0]
    /\ blk = NoBlock
    /\ node = NoNode
    /\ text = << >>
    /\ cmp = NoCmp
    /\ result = NoResult

\* be_dwarf_callframe_offset(v)
DwarfOffset(d, v) == [d EXCEPT !.offset = v, !.n = d.n + 1]

\* amd64_emit_function up to the block loop (lines 1015-1044): the driver
\* calls it for the next function only after the previous call has returned
EmitFunctionBegin ==
    /\ pc = "idle"
    /\ nfuncs < Len(Functions)
    /\ \E g \in Irgs(nfuncs + 1) :
          /\ irg' = g
          /\ layout' = g.id
          /\ omit_fp' = g.omit_fp
          /\ frame_type_size' = IF g.omit_fp THEN g.frame_type_size
                                             ELSE frame_type_size
          /\ writer' = [writer EXCEPT
                          !.layout = g.id,
                          !.omit_fp = g.id,
                          !.frame_type_size = IF g.omit_fp THEN g.id ELSE @]
          /\ dwarf' = IF g.omit_fp
                      THEN [dwarf EXCEPT !.reg = "rsp"]
                      ELSE DwarfOffset([dwarf EXCEPT !.reg = "rbp"], 16)
          /\ out' = Append(out, [e |-> "prolog", f |-> g.entity])
    /\ nfuncs' = nfuncs + 1
    /\ observed' = {}
    /\ pc' = "sched"
    /\ bi' = 1
    /\ ni' = 0
    /\ UNCHANGED <<be_options, callframe_offset, blk, node, text, cmp, result>>

block_callframe_offset_start_only(is_start, fts) == 8

\* the offset amd64_gen_block starts a block with (lines 1001-1005)
block_callframe_offset(is_start, fts) ==
    IF is_start THEN 8 ELSE 8 + fts

\* whether amd64_gen_block reads frame_type_size (lines 999-1005)
gen_block_reads_frame_size_always(omit, is_start) == ~is_start

gen_block_reads_frame_size(omit, is_start) == omit /\ ~is_start

\* amd64_gen_block up to the node loop (lines 997-1007), for blk_sched[bi]
GenBlockBegin ==
    /\ pc = "sched"
    /\ bi <= Len(irg.blk_sched)
    /\ LET block    == irg.blk_sched[bi]
           is_start == block = irg.start_block
           reads_fs == gen_block_reads_frame_size(omit_fp, is_start)
       IN  /\ blk' = block
           /\ out' = Append(out, [e |-> "block", f |-> irg.entity, b |-> block])
           /\ callframe_offset' =
                  IF omit_fp THEN block_callframe_offset(is_start, frame_type_size)
                             ELSE callframe_offset
           /\ writer' = IF omit_fp THEN [writer EXCEPT !.callframe_offset = irg.id]
                                   ELSE writer
           /\ dwarf' = IF omit_fp THEN DwarfOffset(dwarf, callframe_offset')
                                  ELSE dwarf
           /\ observed' = {writer.omit_fp}
                          \cup (IF reads_fs THEN {writer.frame_type_size} ELSE {})
    /\ ni' = 0
    /\ pc' = "block"
    /\ UNCHANGED <<be_options, irg, nfuncs, bi, omit_fp, frame_type_size,
                   layout, node, text, cmp, result>>

\* whether amd64_emit_node moves the running offset (lines 981-983)
emit_node_updates_any_mode(omit, sp_change) == sp_change # 0

emit_node_updates(omit, sp_change) == omit /\ sp_change # 0

\* amd64_emit_node for the next scheduled node of the block (lines 977-989),
\* and the step of sched_foreach; after the block's last node the block loop
\* of amd64_emit_function moves on
EmitNode ==
    /\ pc = "block"
    /\ ni < irg.nsched[blk]
    /\ \E n \in SchedNodes :
          LET sp_change == n.sp_bias
              updates   == emit_node_updates(omit_fp, sp_change)
          IN  /\ node' = n
              /\ text' = be_emit_node(n)
              /\ out' = Append(out, [e |-> "node", f |-> irg.entity, b |-> blk,
                                     i |-> ni + 1])
              /\ callframe_offset' = IF updates THEN callframe_offset + sp_change
                                                ELSE callframe_offset
              /\ dwarf' = IF updates THEN DwarfOffset(dwarf, callframe_offset')
                                     ELSE dwarf
              /\ writer' = IF updates THEN [writer EXCEPT !.callframe_offset = irg.id]
                                      ELSE writer
              /\ observed' = {writer.omit_fp}
                             \cup (IF n.entity THEN {writer.layout} ELSE {})
                             \cup (IF updates THEN {writer.callframe_offset} ELSE {})
    /\ ni' = ni + 1
    /\ IF ni' = irg.nsched[blk]
       THEN pc' = "sched" /\ bi' = bi + 1
       ELSE pc' = "block" /\ bi' = bi
    /\ UNCHANGED <<be_options, irg, nfuncs, omit_fp, frame_type_size, layout,
                   blk, cmp, result>>

\* the end of amd64_emit_function (lines 1050-1052), one block too early
EmitFunctionEndEarly ==
    /\ pc = "sched"
    /\ bi >= Len(irg.blk_sched)
    /\ out' = Append(out, [e |-> "epilog", f |-> irg.entity])
    /\ observed' = {}
    /\ pc' = "idle"
    /\ UNCHANGED <<be_options, irg, nfuncs, bi, ni, omit_fp, frame_type_size,
                   callframe_offset, layout, writer, dwarf, blk, node, text,
                   cmp, result>>

\* the end of amd64_emit_function (lines 1050-1052), after the block loop
EmitFunctionEnd ==
    /\ pc = "sched"
    /\ bi > Len(irg.blk_sched)
    /\ out' = Append(out, [e |-> "epilog", f |-> irg.entity])
    /\ observed' = {}
    /\ pc' = "idle"
    /\ UNCHANGED <<be_options, irg, nfuncs, bi, ni, omit_fp, frame_type_size,
                   callframe_offset, layout, writer, dwarf, blk, node, text,
                   cmp, result>>

Next == EmitFunctionBegin \/ GenBlockBegin \/ EmitNode \/ EmitFunctionEnd

Spec == Init /\ [][Next]_vars


(* ---------------------------------------------- claims on function emission *)

RECURSIVE BlockStream(_, _, _)
\* the events of block b's nodes j..nsched[b]
BlockStream(g, b, j) ==
    IF j > g.nsched[b] THEN << >>
    ELSE << [e |-> "node", f |-> g.entity, b |-> b, i |-> j] >>
         \o BlockStream(g, b, j + 1)

RECURSIVE BlocksStream(_, _)
\* the events of the blocks scheduled at positions i..Len(blk_sched)
BlocksStream(g, i) ==
    IF i > Len(g.blk_sched) THEN << >>
    ELSE << [e |-> "block", f |-> g.entity, b |-> g.blk_sched[i]] >>
         \o BlockStream(g, g.blk_sched[i], 1)
         \o BlocksStream(g, i + 1)

\* what the emission of graph g writes, from prolog to epilog
FunctionStream(g) ==
    << [e |-> "prolog", f |-> g.entity] >> \o BlocksStream(g, 1)
    \o << [e |-> "epilog", f |-> g.entity] >>

\* the part of the output stream written for the function of graph g
StreamOf(g) ==
    LET Mine(ev) == ev.f = g.entity
    IN  SelectSeq(out, Mine)

\* C6: the output for a function is at every moment a prefix of: prolog, then
\* the blocks in schedule order, each begun once and followed by its nodes
\* once each in schedule order, then the epilog; it is the whole of it once
\* amd64_emit_function has returned.
C6_ScheduleOrder ==
    irg # NoIrg =>
        LET mine == StreamOf(irg)
            all  == FunctionStream(irg)
        IN  /\ Len(mine) <= Len(all)
            /\ mine = SubSeq(all, 1, Len(mine))
            /\ (pc = "idle" <=> mine = all)

\* a function of two blocks with two nodes each has been emitted whole
C6_Witness ==
    /\ pc = "idle"
    /\ irg # NoIrg
    /\ Len(irg.blk_sched) = 2
    /\ irg.nsched = << 2, 2 >>
    /\ Len(StreamOf(irg)) = 8
    /\ out[Len(out)].e = "epilog"

\* the step just taken emitted a node
NodeStep == Len(out') = Len(out) + 1 /\ out'[Len(out')].e = "node"

\* C7 as stated: whenever a node with a nonzero stack-pointer delta is
\* emitted the running offset grows by that delta and the new value is
\* reported; with a zero delta nothing changes and nothing is reported.
C7_Original ==
    [][ NodeStep =>
          IF node'.sp_bias # 0
          THEN /\ callframe_offset' = callframe_offset + node'.sp_bias
               /\ dwarf' = DwarfOffset(dwarf, callframe_offset')
          ELSE /\ callframe_offset' = callframe_offset
               /\ dwarf' = dwarf ]_vars

\* C7, amended: while frame-pointer omission is active (omit_fp), emitting a
\* node with a nonzero delta grows the running offset by that delta and
\* reports the new value; with a zero delta, or with omit_fp clear, the
\* offset is unchanged and nothing is reported.
C7_OffsetTracksDelta ==
    [][ NodeStep =>
          IF omit_fp /\ node'.sp_bias # 0
          THEN /\ callframe_offset' = callframe_offset + node'.sp_bias
               /\ dwarf' = DwarfOffset(dwarf, callframe_offset')
          ELSE /\ callframe_offset' = callframe_offset
               /\ dwarf' = dwarf ]_vars

\* a node with a nonzero delta was emitted under omit_fp and reported
C7_Witness ==
    /\ out # << >> /\ out[Len(out)].e = "node"
    /\ omit_fp
    /\ node.sp_bias = 8
    /\ callframe_offset = 32
    /\ dwarf.offset = 32

\* C8: the events written for one function are contiguous in the output
\* stream, from its prolog to its epilog, and every static a step of the
\* emission reads (omit_fp, frame_type_size, callframe_offset, layout) was
\* last written by the emission of that same function.
C8_NoInterleaving ==
    /\ \A i \in 1 .. Len(out) - 1 :
          (\E j \in i + 1 .. Len(out) : out[j].f = out[i].f) =>
              out[i + 1].f = out[i].f
    /\ \A i \in 1 .. Len(out) :
          /\ out[i].e = "prolog" <=> (i = 1 \/ out[i - 1].f # out[i].f)
          /\ (i < Len(out) /\ out[i].e = "epilog") => out[i + 1].f # out[i].f
    /\ irg # NoIrg => observed \subseteq {irg.id}

\* the second function, emitted under omit_fp after a first one emitted
\* without, has read the statics in a block other than its start block
C8_Witness ==
    /\ nfuncs = 2
    /\ pc = "block"
    /\ omit_fp
    /\ blk # irg.start_block
    /\ observed = {2}
    /\ \E i \in 1 .. Len(out) : out[i] = [e |-> "epilog", f |-> Functions[1]]


(* --------------------------------------------- attribute equality (SpecEq) *)

\* fields in which the second record of a pair may differ from the first
MaxDiff == 1

\* x86_imm32_t: a relocation kind, its entity (NULL while unassigned) and an
\* offset; a plain value has no entity, an address always has one
Imm32s ==
    [kind : {"X86_IMM_VALUE"}, entity : {NoEntity}, offset : {0, 8}]
    \cup [kind : {"X86_IMM_ADDR"}, entity : {"e1"}, offset : {0, 8}]
    \cup [kind : {"X86_IMM_FRAMEENT"}, entity : {NoEntity}, offset : {0, 8}]
    \cup [kind : {"X86_IMM_FRAMEENT"}, entity : {"fe1"}, offset : {0}]

\* x86_addr_variant_t, the variants amd64_emit_addr tells apart
AddrVariants ==
    {"X86_ADDR_JUST_IMM", "X86_ADDR_RIP", "X86_ADDR_BASE", "X86_ADDR_BASE_INDEX"}

\* amd64_addr_t, without the memory and register input positions, which no
\* predicate reads
Addrs ==
    [immediate : Imm32s, base_input : {0, 1}, index_input : {0, 1},
     log_scale : {0, 3},
     segment : {"AMD64_SEGMENT_DEFAULT", "AMD64_SEGMENT_FS"},
     variant : AddrVariants]

InsnSizes == {"INSN_SIZE_32", "INSN_SIZE_64"}

ImmOpModes == {"AMD64_OP_REG_IMM", "AMD64_OP_ADDR_IMM"}
BinopOpModes ==
    ImmOpModes \cup {"AMD64_OP_REG_REG", "AMD64_OP_REG_ADDR", "AMD64_OP_ADDR_REG"}

\* the union u of amd64_binop_addr_attr_t holds a 32-bit immediate for the
\* immediate operand modes and a register input position for the others
BinopUnion(op_mode) ==
    IF op_mode \in ImmOpModes
    THEN [immediate : [kind : {"X86_IMM_VALUE"}, entity : {NoEntity},
                       offset : {0, 8}]]
    ELSE [reg_input : {0, 1}]

\* amd64_binop_addr_attr_t
BinopAttrs ==
    UNION { [op_mode : {m}, size : InsnSizes, addr : Addrs, u : BinopUnion(m)]
            : m \in BinopOpModes }

\* the records that differ from a in at most one member
BinopVariants(a) ==
    {a}
    \cup { [a EXCEPT !.op_mode = m, !.u = w] : m \in BinopOpModes,
                                             w \in UNION { BinopUnion(x) : x \in BinopOpModes } }
    \cup { [a EXCEPT !.size = v] : v \in InsnSizes }
    \cup { [a EXCEPT !.addr.immediate = v] : v \in Imm32s }
    \cup { [a EXCEPT !.addr.base_input = v] : v \in {0, 1} }
    \cup { [a EXCEPT !.addr.index_input = v] : v \in {0, 1} }
    \cup { [a EXCEPT !.addr.log_scale = v] : v \in {0, 3} }
    \cup { [a EXCEPT !.addr.segment = v]
           : v \in {"AMD64_SEGMENT_DEFAULT", "AMD64_SEGMENT_FS"} }
    \cup { [a EXCEPT !.addr.variant = v]
           : v \in AddrVariants }
    \cup { [a EXCEPT !.u = w] : w \in BinopUnion(a.op_mode) }

RECURSIVE BinopNear(_, _)
\* the well-formed records within k changed members of a
BinopNear(a, k) ==
    IF k = 0 THEN {a}
    ELSE UNION { BinopVariants(x) \cap BinopAttrs : x \in BinopNear(a, k - 1) }

\* entity, offset and kind all equal
x86_imm32_equal(imm0, imm1) ==
    /\ imm0.entity = imm1.entity
    /\ imm0.offset = imm1.offset
    /\ imm0.kind = imm1.kind

amd64_addrs_equal(am0, am1) ==
    /\ x86_imm32_equal(am0.immediate, am1.immediate)
    /\ am0.base_input = am1.base_input
    /\ am0.index_input = am1.index_input
    /\ am0.log_scale = am1.log_scale
    /\ am0.segment = am1.segment

amd64_attrs_equal(a, b) == a.op_mode = b.op_mode

amd64_addr_attrs_equal(a, b) ==
    /\ amd64_attrs_equal(a, b)
    /\ amd64_addrs_equal(a.addr, b.addr)
    /\ a.size = b.size

amd64_binop_addr_attrs_equal(a, b) ==
    IF ~amd64_addr_attrs_equal(a, b) THEN FALSE
    ELSE IF a.op_mode = "AMD64_OP_REG_IMM" \/ a.op_mode = "AMD64_OP_ADDR_IMM"
         THEN x86_imm32_equal(a.u.immediate, b.u.immediate)
         ELSE a.u.reg_input = b.u.reg_input

\* the records that differ from r in at most one member of the table fields
RecVariants(r, fields) ==
    {r} \cup UNION { { [r EXCEPT ![f] = v] : v \in fields[f] }
                     : f \in DOMAIN fields }

\* amd64_imm64_t
Imm64s ==
    [kind : {"X86_IMM_VALUE"}, entity : {NoEntity}, offset : {0, 8}]
    \cup [kind : {"X86_IMM_ADDR", "X86_IMM_GOTPCREL"}, entity : {"e1"},
          offset : {0, 8}]

\* x87_attr_t as far as the emitter reads it
X87Attrs == [reverse : BOOLEAN]

\* the kinds of amd64 attribute record, one per equality predicate
AmdKinds ==
    {"attr", "addr", "binop", "movimm", "shift", "cc", "switch_jmp",
     "call_addr", "x87", "x87_addr", "x87_binop"}

\* the members a record of kind k holds besides op_mode, the addressing
\* part (size, addr) and the binary-op union u
AmdExtraFields ==
    [attr       |-> [x \in {} |-> {}],
     addr       |-> [x \in {} |-> {}],
     binop      |-> [x \in {} |-> {}],
     movimm     |-> [size |-> InsnSizes, immediate |-> Imm64s],
     shift      |-> [size |-> InsnSizes, immediate |-> {0, 1, 63}],
     cc         |-> [cc |-> {x86_cc_equal, x86_cc_less}, size |-> InsnSizes],
     switch_jmp |-> [table |-> {"t1", "t2"}, table_entity |-> {"tbl1", "tbl2"}],
     call_addr  |-> [n_reg_results |-> {0, 1}, call_tp |-> {"tp1", "tp2"}],
     x87        |-> [x87 |-> X87Attrs],
     x87_addr   |-> [x87 |-> X87Attrs],
     x87_binop  |-> [x87 |-> X87Attrs]]

\* the operand modes the nodes of kind k are built with
AmdOpModes(k) ==
    CASE k = "attr" -> {"AMD64_OP_NONE", "AMD64_OP_REG", "AMD64_OP_IMM32"}
      [] k = "addr" -> {"AMD64_OP_ADDR", "AMD64_OP_REG"}
      [] k \in {"binop", "x87_binop"} -> BinopOpModes
      [] k = "movimm" -> {"AMD64_OP_IMM64"}
      [] k = "shift" -> {"AMD64_OP_SHIFT_REG", "AMD64_OP_SHIFT_IMM"}
      [] k = "cc" -> {"AMD64_OP_CC"}
      [] k = "switch_jmp" -> {"AMD64_OP_ADDR"}
      [] k = "call_addr" -> {"AMD64_OP_ADDR", "AMD64_OP_IMM32"}
      [] k = "x87" -> {"AMD64_OP_X87"}
      [] k = "x87_addr" -> {"AMD64_OP_ADDR", "AMD64_OP_X87_ADDR_REG"}

\* the addressing modes of the records whose predicate leaves the comparison
\* of the addressing part to amd64_addr_attrs_equal: a base register and a
\* displacement
PlainAddrs ==
    { ad \in Addrs : /\ ad.variant = "X86_ADDR_BASE"
                     /\ ad.segment = "AMD64_SEGMENT_DEFAULT"
                     /\ ad.index_input = 0
                     /\ ad.log_scale = 0 }

\* the attribute records of kind k
AmdRecords(k) ==
    LET x == AmdExtraFields[k]
        m == AmdOpModes(k)
    IN  CASE k = "attr" -> [op_mode : m]
          [] k = "addr" -> [op_mode : m, size : InsnSizes, addr : Addrs]
          [] k = "binop" -> BinopAttrs
          [] k = "movimm" -> [op_mode : m, size : x.size, immediate : x.immediate]
          [] k = "shift" -> [op_mode : m, size : x.size, immediate : x.immediate]
          [] k = "cc" -> [op_mode : m, cc : x.cc, size : x.size]
          [] k = "switch_jmp" ->
                [op_mode : m, size : InsnSizes, addr : PlainAddrs, table : x.table,
                 table_entity : x.table_entity]
          [] k = "call_addr" ->
                [op_mode : m, size : InsnSizes, addr : PlainAddrs,
                 n_reg_results : x.n_reg_results, call_tp : x.call_tp]
          [] k = "x87" -> [op_mode : m, x87 : x.x87]
          [] k = "x87_addr" ->
                [op_mode : m, size : InsnSizes, addr : PlainAddrs, x87 : x.x87]
          [] k = "x87_binop" ->
                UNION { [op_mode : {o}, size : InsnSizes, addr : PlainAddrs,
                         u : BinopUnion(o), x87 : x.x87] : o \in BinopOpModes }

\* the kinds whose record embeds an amd64_addr_attr_t
AmdAddrKinds ==
    {"addr", "binop", "switch_jmp", "call_addr", "x87_addr", "x87_binop"}

\* the records that differ from a in one member of the addressing part
AddrAttrVariants(a) ==
    { [a EXCEPT !.size = v] : v \in InsnSizes }
    \cup { [a EXCEPT !.addr.immediate = v] : v \in Imm32s }
    \cup { [a EXCEPT !.addr.base_input = v] : v \in {0, 1} }
    \cup { [a EXCEPT !.addr.index_input = v] : v \in {0, 1} }
    \cup { [a EXCEPT !.addr.log_scale = v] : v \in {0, 3} }
    \cup { [a EXCEPT !.addr.segment = v]
           : v \in {"AMD64_SEGMENT_DEFAULT", "AMD64_SEGMENT_FS"} }
    \cup { [a EXCEPT !.addr.variant = v]
           : v \in AddrVariants }

\* the records of kind k that differ from a in at most one member
AmdVariants(k, a) ==
    ( RecVariants(a, AmdExtraFields[k])
      \cup (IF k \in AmdAddrKinds THEN AddrAttrVariants(a) ELSE {})
      \cup (IF k \in {"binop", "x87_binop"}
            THEN BinopVariants(a)
            ELSE { [a EXCEPT !.op_mode = m] : m \in AmdOpModes(k) }) )
    \cap AmdRecords(k)

RECURSIVE AmdNear(_, _, _)
\* the records of kind k within n changed members of a
AmdNear(k, a, n) ==
    IF n = 0 THEN {a}
    ELSE UNION { AmdVariants(k, x) : x \in AmdNear(k, a, n - 1) }

imm64s_equal(imm0, imm1) ==
    imm0.offset = imm1.offset /\ imm0.entity = imm1.entity

amd64_movimm_attrs_equal(a, b) ==
    /\ amd64_attrs_equal(a, b)
    /\ imm64s_equal(a.immediate, b.immediate)
    /\ a.size = b.size

amd64_shift_attrs_equal_ordered(a, b) ==
    /\ amd64_attrs_equal(a, b)
    /\ a.immediate <= b.immediate
    /\ a.size = b.size

amd64_shift_attrs_equal(a, b) ==
    /\ amd64_attrs_equal(a, b)
    /\ a.immediate = b.immediate
    /\ a.size = b.size

amd64_cc_attrs_equal(a, b) == amd64_attrs_equal(a, b) /\ a.cc = b.cc

amd64_switch_jmp_attrs_equal(a, b) ==
    amd64_attrs_equal(a, b) /\ a.table = b.table

amd64_call_addr_attrs_equal(a, b) ==
    amd64_addr_attrs_equal(a, b) /\ a.call_tp = b.call_tp

amd64_x87_attrs_equal(a, b) == amd64_attrs_equal(a, b)

amd64_x87_addr_attrs_equal(a, b) == amd64_addr_attrs_equal(a, b)

amd64_x87_binop_addr_attrs_equal(a, b) == amd64_binop_addr_attrs_equal(a, b)

InitEq ==
    /\ be_options = [verbose_asm |-> FALSE, pic_style |-> BE_PIC_NONE]
    /\ pc = "eq"
    /\ irg = NoIrg
    /\ nfuncs = 0
    /\ bi = 0
    /\ ni = 0
    /\ omit_fp = FALSE
    /\ frame_type_size = 0
    /\ callframe_offset = 0
    /\ layout = 0
    /\ writer = [omit_fp |-> 0, frame_type_size |-> 0, callframe_offset |-> 0,
                 layout |-> 0]
    /\ observed = {}
    /\ out = << >>
    /\ dwarf = [reg |-> "none", offset |-> 0, n |-> 0]
    /\ blk = NoBlock
    /\ node = NoNode
    /\ text = << >>
    /\ \/ \E a \in BinopAttrs : \E b \in BinopNear(a, MaxDiff) :
             cmp = [kind |-> "binop", a |-> a, b |-> b]
       \/ \E k \in AmdKinds \ {"binop"} : \E a \in AmdRecords(k) :
             \E b \in AmdNear(k, a, MaxDiff) :
                cmp = [kind |-> k, a |-> a, b |-> b]
    /\ result = NoResult

EqFrame ==
    /\ pc' = IF pc = "eq" THEN "compared" ELSE "recompared"
    /\ UNCHANGED <<be_options, irg, nfuncs, bi, ni, omit_fp, frame_type_size,
                   callframe_offset, layout, writer, observed, out, dwarf,
                   blk, node, text, cmp>>

\* the node comparison of CSE calling amd64_binop_addr_attrs_equal
\* the comparison reading the registers assigned to the compared inputs
BinopAttrsEqualByRegister ==
    /\ pc \in {"eq", "allocated"}
    /\ cmp.kind = "binop"
    /\ result' = IF ~amd64_addr_attrs_equal(cmp.a, cmp.b) THEN FALSE
                 ELSE IF cmp.a.op_mode \in ImmOpModes
                      THEN x86_imm32_equal(cmp.a.u.immediate, cmp.b.u.immediate)
                      ELSE cmp.ra[cmp.a.u.reg_input] = cmp.rb[cmp.b.u.reg_input]
    /\ EqFrame

BinopAttrsEqual ==
    /\ pc \in {"eq", "allocated"}
    /\ cmp.kind = "binop"
    /\ result' = amd64_binop_addr_attrs_equal(cmp.a, cmp.b)
    /\ EqFrame

AttrsEqual ==
    /\ pc = "eq" /\ cmp.kind = "attr"
    /\ result' = amd64_attrs_equal(cmp.a, cmp.b)
    /\ EqFrame

AddrAttrsEqual ==
    /\ pc = "eq" /\ cmp.kind = "addr"
    /\ result' = amd64_addr_attrs_equal(cmp.a, cmp.b)
    /\ EqFrame

MovimmAttrsEqual ==
    /\ pc = "eq" /\ cmp.kind = "movimm"
    /\ result' = amd64_movimm_attrs_equal(cmp.a, cmp.b)
    /\ EqFrame

ShiftAttrsEqual ==
    /\ pc = "eq" /\ cmp.kind = "shift"
    /\ result' = amd64_shift_attrs_equal(cmp.a, cmp.b)
    /\ EqFrame

CcAttrsEqual ==
    /\ pc = "eq" /\ cmp.kind = "cc"
    /\ result' = amd64_cc_attrs_equal(cmp.a, cmp.b)
    /\ EqFrame

SwitchJmpAttrsEqual ==
    /\ pc = "eq" /\ cmp.kind = "switch_jmp"
    /\ result' = amd64_switch_jmp_attrs_equal(cmp.a, cmp.b)
    /\ EqFrame

CallAddrAttrsEqual ==
    /\ pc = "eq" /\ cmp.kind = "call_addr"
    /\ result' = amd64_call_addr_attrs_equal(cmp.a, cmp.b)
    /\ EqFrame

X87AttrsEqual ==
    /\ pc = "eq" /\ cmp.kind = "x87"
    /\ result' = amd64_x87_attrs_equal(cmp.a, cmp.b)
    /\ EqFrame

X87AddrAttrsEqual ==
    /\ pc = "eq" /\ cmp.kind = "x87_addr"
    /\ result' = amd64_x87_addr_attrs_equal(cmp.a, cmp.b)
    /\ EqFrame

X87BinopAttrsEqual ==
    /\ pc = "eq" /\ cmp.kind = "x87_binop"
    /\ result' = amd64_x87_binop_addr_attrs_equal(cmp.a, cmp.b)
    /\ EqFrame

NextEq ==
    \/ BinopAttrsEqual
    \/ AttrsEqual
    \/ AddrAttrsEqual
    \/ MovimmAttrsEqual
    \/ ShiftAttrsEqual
    \/ CcAttrsEqual
    \/ SwitchJmpAttrsEqual
    \/ CallAddrAttrsEqual
    \/ X87AttrsEqual
    \/ X87AddrAttrsEqual
    \/ X87BinopAttrsEqual

SpecEq == InitEq /\ [][NextEq]_vars

(* --------------------------------------------- claims on attribute equality *)

\* the addressing-mode immediate is a frame relocation with no entity yet
UnresolvedFrameEntity(a) ==
    a.addr.immediate.kind = "X86_IMM_FRAMEENT" /\ a.addr.immediate.entity = NoEntity

\* C10: two identical binary-op records whose addressing-mode immediate is an
\* unresolved frame relocation (X86_IMM_FRAMEENT, no entity) compare unequal
\* under amd64_binop_addr_attrs_equal, a record compared with itself included.
C10_UnresolvedFrameNeverEqual ==
    ( /\ pc = "compared"
      /\ cmp.kind = "binop"
      /\ cmp.a = cmp.b
      /\ UnresolvedFrameEntity(cmp.a) ) => result = FALSE


\* the predicate that applies to records of kind k
AmdPredicate(k, a, b) ==
    CASE k = "attr" -> amd64_attrs_equal(a, b)
      [] k = "addr" -> amd64_addr_attrs_equal(a, b)
      [] k = "binop" -> amd64_binop_addr_attrs_equal(a, b)
      [] k = "movimm" -> amd64_movimm_attrs_equal(a, b)
      [] k = "shift" -> amd64_shift_attrs_equal(a, b)
      [] k = "cc" -> amd64_cc_attrs_equal(a, b)
      [] k = "switch_jmp" -> amd64_switch_jmp_attrs_equal(a, b)
      [] k = "call_addr" -> amd64_call_addr_attrs_equal(a, b)
      [] k = "x87" -> amd64_x87_attrs_equal(a, b)
      [] k = "x87_addr" -> amd64_x87_addr_attrs_equal(a, b)
      [] k = "x87_binop" -> amd64_x87_binop_addr_attrs_equal(a, b)

\* a record of kind k carries an unresolved frame relocation
AmdUnresolved(k, a) == k \in AmdAddrKinds /\ UnresolvedFrameEntity(a)

\* C12: over records that carry no unresolved frame relocation every amd64
\* equality predicate is reflexive, P(a,a) is true, and symmetric,
\* P(a,b) = P(b,a).
C12_ReflexiveSymmetric ==
    ( /\ pc = "compared"
      /\ cmp.kind \in AmdKinds
      /\ ~AmdUnresolved(cmp.kind, cmp.a)
      /\ ~AmdUnresolved(cmp.kind, cmp.b) ) =>
        /\ cmp.a = cmp.b => result = TRUE
        /\ result = AmdPredicate(cmp.kind, cmp.b, cmp.a)

\* two shift records that differ in the shift amount only, the smaller first
C12_Witness ==
    /\ pc = "compared"
    /\ cmp.kind = "shift"
    /\ cmp.a.immediate < cmp.b.immediate
    /\ cmp.a.size = cmp.b.size /\ cmp.a.op_mode = cmp.b.op_mode
    /\ result = FALSE

\* C13: amd64_addr_attrs_equal returns true if and only if the two records
\* have the same operand mode, the same size and addressing modes that agree
\* in variant, immediate (offset, entity, kind), base input, index input,
\* scale exponent and segment.
C13_AddrEqualIffAllFields ==
    (pc = "compared" /\ cmp.kind = "addr") =>
        ( result = TRUE <=>
            /\ cmp.a.op_mode = cmp.b.op_mode
            /\ cmp.a.size = cmp.b.size
            /\ cmp.a.addr.variant = cmp.b.addr.variant
            /\ cmp.a.addr.immediate = cmp.b.addr.immediate
            /\ cmp.a.addr.base_input = cmp.b.addr.base_input
            /\ cmp.a.addr.index_input = cmp.b.addr.index_input
            /\ cmp.a.addr.log_scale = cmp.b.addr.log_scale
            /\ cmp.a.addr.segment = cmp.b.addr.segment )

\* C14: amd64_movimm_attrs_equal returns true if and only if the two records
\* have the same operand mode, the same size, the same 64-bit immediate value
\* and the same relocation: the same entity and the same relocation kind.
C14_MovimmEqualIffAllFields ==
    (pc = "compared" /\ cmp.kind = "movimm") =>
        ( result = TRUE <=>
            /\ cmp.a.op_mode = cmp.b.op_mode
            /\ cmp.a.size = cmp.b.size
            /\ cmp.a.immediate.offset = cmp.b.immediate.offset
            /\ cmp.a.immediate.entity = cmp.b.immediate.entity
            /\ cmp.a.immediate.kind = cmp.b.immediate.kind )


(* ------------------------------------------- ia32 attribute equality (SpecIa32) *)

\* ia32_attr_t as far as ia32_attrs_equal_ reads it
Ia32AttrFields ==
    [tp               |-> {"ia32_Normal", "ia32_AddrModeS"},
     am_scale         |-> {0, 1},
     am_imm           |-> Imm32s,
     ls_mode          |-> {"mode_Iu", "mode_Bu"},
     frame_use        |-> {"IA32_FRAME_USE_NONE", "IA32_FRAME_USE_AUTO"},
     has_except_label |-> BOOLEAN,
     ins_permuted     |-> BOOLEAN]

\* the members each ia32 attribute record adds to its ia32_attr_t
Ia32ExtraFields ==
    [ia32_attr       |-> [x \in {} |-> {}],
     ia32_condcode   |-> [condition_code |-> {x86_cc_equal, x86_cc_less}],
     ia32_call       |-> [pop |-> {0, 4}, call_tp |-> {"tp1", "tp2"}],
     ia32_copyb      |-> [size |-> {4, 8}],
     ia32_x87        |-> [x \in {} |-> {}],
     ia32_climbframe |-> [count |-> {1, 2}],
     ia32_switch     |-> [table |-> {"t1", "t2"},
                          table_entity |-> {"tbl1", "tbl2"}],
     ia32_return     |-> [pop |-> {0, 4}]]

Ia32Kinds == DOMAIN Ia32ExtraFields

Ia32Attrs ==
    [tp : Ia32AttrFields.tp, am_scale : Ia32AttrFields.am_scale,
     am_imm : Ia32AttrFields.am_imm, ls_mode : Ia32AttrFields.ls_mode,
     frame_use : Ia32AttrFields.frame_use,
     has_except_label : Ia32AttrFields.has_except_label,
     ins_permuted : Ia32AttrFields.ins_permuted]

\* the ia32 records of kind k: the ia32_attr_t and the members k adds
Ia32Records(k) ==
    LET x == Ia32ExtraFields[k]
    IN  CASE k \in {"ia32_attr", "ia32_x87"} -> [attr : Ia32Attrs]
          [] k = "ia32_condcode" ->
                [attr : Ia32Attrs, condition_code : x.condition_code]
          [] k = "ia32_call" -> [attr : Ia32Attrs, pop : x.pop, call_tp : x.call_tp]
          [] k = "ia32_copyb" -> [attr : Ia32Attrs, size : x.size]
          [] k = "ia32_climbframe" -> [attr : Ia32Attrs, count : x.count]
          [] k = "ia32_switch" ->
                [attr : Ia32Attrs, table : x.table, table_entity : x.table_entity]
          [] k = "ia32_return" -> [attr : Ia32Attrs, pop : x.pop]

\* the records of kind k that differ from r in at most one member, a member
\* of the embedded ia32_attr_t counting as one
Ia32Variants(k, r) ==
    { [r EXCEPT !.attr = v] : v \in RecVariants(r.attr, Ia32AttrFields) }
    \cup UNION { { [r EXCEPT ![f] = v] : v \in Ia32ExtraFields[k][f] }
                 : f \in DOMAIN Ia32ExtraFields[k] }

ia32_attrs_equal_no_frame_test(a, b) ==
    /\ a.tp = b.tp
    /\ a.am_scale = b.am_scale
    /\ x86_imm32_equal(a.am_imm, b.am_imm)
    /\ a.ls_mode = b.ls_mode
    /\ a.frame_use = b.frame_use
    /\ a.has_except_label = b.has_except_label
    /\ a.ins_permuted = b.ins_permuted

ia32_attrs_equal_(a, b) ==
    IF a.am_imm.kind = "X86_IMM_FRAMEENT" /\ a.am_imm.entity = NoEntity
    THEN FALSE
    ELSE /\ a.tp = b.tp
         /\ a.am_scale = b.am_scale
         /\ x86_imm32_equal(a.am_imm, b.am_imm)
         /\ a.ls_mode = b.ls_mode
         /\ a.frame_use = b.frame_use
         /\ a.has_except_label = b.has_except_label
         /\ a.ins_permuted = b.ins_permuted

ia32_attrs_equal(a, b) == ia32_attrs_equal_(a.attr, b.attr)

ia32_condcode_attrs_equal(a, b) ==
    /\ ia32_attrs_equal_(a.attr, b.attr)
    /\ a.condition_code = b.condition_code

ia32_call_attrs_equal(a, b) ==
    /\ ia32_attrs_equal_(a.attr, b.attr)
    /\ a.pop = b.pop /\ a.call_tp = b.call_tp

ia32_copyb_attrs_equal(a, b) ==
    /\ ia32_attrs_equal_(a.attr, b.attr)
    /\ a.size = b.size

ia32_x87_attrs_equal(a, b) == ia32_attrs_equal_(a.attr, b.attr)

ia32_climbframe_attrs_equal(a, b) ==
    /\ ia32_attrs_equal_(a.attr, b.attr)
    /\ a.count = b.count

ia32_switch_attrs_equal(a, b) ==
    /\ ia32_attrs_equal_(a.attr, b.attr)
    /\ a.table = b.table
    /\ a.table_entity = b.table_entity

ia32_return_attrs_equal(a, b) ==
    /\ ia32_attrs_equal_(a.attr, b.attr)
    /\ a.pop = b.pop

InitIa32 ==
    /\ be_options = [verbose_asm |-> FALSE, pic_style |-> BE_PIC_NONE]
    /\ pc = "eq"
    /\ irg = NoIrg
    /\ nfuncs = 0
    /\ bi = 0
    /\ ni = 0
    /\ omit_fp = FALSE
    /\ frame_type_size = 0
    /\ callframe_offset = 0
    /\ layout = 0
    /\ writer = [omit_fp |-> 0, frame_type_size |-> 0, callframe_offset |-> 0,
                 layout |-> 0]
    /\ observed = {}
    /\ out = << >>
    /\ dwarf = [reg |-> "none", offset |-> 0, n |-> 0]
    /\ blk = NoBlock
    /\ node = NoNode
    /\ text = << >>
    /\ \E k \in Ia32Kinds : \E a \in Ia32Records(k) :
          \E b \in Ia32Variants(k, a) : cmp = [kind |-> k, a |-> a, b |-> b]
    /\ result = NoResult

Ia32AttrsEqual ==
    /\ pc = "eq" /\ cmp.kind = "ia32_attr"
    /\ result' = ia32_attrs_equal(cmp.a, cmp.b)
    /\ EqFrame

Ia32CondcodeAttrsEqual ==
    /\ pc = "eq" /\ cmp.kind = "ia32_condcode"
    /\ result' = ia32_condcode_attrs_equal(cmp.a, cmp.b)
    /\ EqFrame

Ia32CallAttrsEqual ==
    /\ pc = "eq" /\ cmp.kind = "ia32_call"
    /\ result' = ia32_call_attrs_equal(cmp.a, cmp.b)
    /\ EqFrame

Ia32CopybAttrsEqual ==
    /\ pc = "eq" /\ cmp.kind = "ia32_copyb"
    /\ result' = ia32_copyb_attrs_equal(cmp.a, cmp.b)
    /\ EqFrame

Ia32X87AttrsEqual ==
    /\ pc = "eq" /\ cmp.kind = "ia32_x87"
    /\ result' = ia32_x87_attrs_equal(cmp.a, cmp.b)
    /\ EqFrame

Ia32ClimbframeAttrsEqual ==
    /\ pc = "eq" /\ cmp.kind = "ia32_climbframe"
    /\ result' = ia32_climbframe_attrs_equal(cmp.a, cmp.b)
    /\ EqFrame

Ia32SwitchAttrsEqual ==
    /\ pc = "eq" /\ cmp.kind = "ia32_switch"
    /\ result' = ia32_switch_attrs_equal(cmp.a, cmp.b)
    /\ EqFrame

Ia32ReturnAttrsEqual ==
    /\ pc = "eq" /\ cmp.kind = "ia32_return"
    /\ result' = ia32_return_attrs_equal(cmp.a, cmp.b)
    /\ EqFrame

NextIa32 ==
    \/ Ia32AttrsEqual
    \/ Ia32CondcodeAttrsEqual
    \/ Ia32CallAttrsEqual
    \/ Ia32CopybAttrsEqual
    \/ Ia32X87AttrsEqual
    \/ Ia32ClimbframeAttrsEqual
    \/ Ia32SwitchAttrsEqual
    \/ Ia32ReturnAttrsEqual

SpecIa32 == InitIa32 /\ [][NextIa32]_vars

\* the address-mode immediate of an ia32 record is a frame relocation with no
\* entity yet
Ia32Unresolved(r) ==
    r.attr.am_imm.kind = "X86_IMM_FRAMEENT" /\ r.attr.am_imm.entity = NoEntity

\* C11: every ia32 predicate built on ia32_attrs_equal_ returns false when the
\* address-mode immediate of either record is X86_IMM_FRAMEENT with no entity,
\* whatever the other members hold, a record compared with itself included.
C11_Ia32UnresolvedNeverEqual ==
    ( /\ pc = "compared"
      /\ cmp.kind \in Ia32Kinds
      /\ Ia32Unresolved(cmp.a) \/ Ia32Unresolved(cmp.b) ) => result = FALSE

\* a switch record with an unresolved frame entity was compared with itself
C11_Witness ==
    /\ pc = "compared"
    /\ cmp.kind = "ia32_switch"
    /\ cmp.a = cmp.b
    /\ Ia32Unresolved(cmp.a)
    /\ result = FALSE


(* ------------------------------ equality and register allocation (SpecRegs) *)

\* the registers the allocator hands out
Registers == {"rax", "rcx"}

\* no register assigned yet
NoRegister == "none"

\* the assignments of registers to the input positions of a node
RegisterAssignments == [{0, 1} -> Registers]

\* the binary-op records compared before and after register allocation
RegBinopAttrs == { a \in BinopAttrs : a.addr \in PlainAddrs }

InitRegs ==
    /\ be_options = [verbose_asm |-> FALSE, pic_style |-> BE_PIC_NONE]
    /\ pc = "eq"
    /\ irg = NoIrg
    /\ nfuncs = 0
    /\ bi = 0
    /\ ni = 0
    /\ omit_fp = FALSE
    /\ frame_type_size = 0
    /\ callframe_offset = 0
    /\ layout = 0
    /\ writer = [omit_fp |-> 0, frame_type_size |-> 0, callframe_offset |-> 0,
                 layout |-> 0]
    /\ observed = {}
    /\ out = << >>
    /\ dwarf = [reg |-> "none", offset |-> 0, n |-> 0]
    /\ blk = NoBlock
    /\ node = NoNode
    /\ text = << >>
    /\ \E a \in RegBinopAttrs : \E b \in BinopNear(a, MaxDiff) \cap RegBinopAttrs :
          cmp = [kind |-> "binop", a |-> a, b |-> b,
                 ra |-> [i \in {0, 1} |-> NoRegister],
                 rb |-> [i \in {0, 1} |-> NoRegister]]
    /\ result = NoResult

\* register allocation assigns, or changes, the registers of the inputs of
\* the two nodes; the attribute records stay as they are
AssignRegisters ==
    /\ pc \in {"compared", "recompared"}
    /\ \E ra, rb \in RegisterAssignments :
          cmp' = [cmp EXCEPT !.ra = ra, !.rb = rb]
    /\ pc' = "allocated"
    /\ UNCHANGED <<be_options, irg, nfuncs, bi, ni, omit_fp, frame_type_size,
                   callframe_offset, layout, writer, observed, out, dwarf,
                   blk, node, text, result>>

NextRegs == BinopAttrsEqual \/ AssignRegisters

SpecRegs == InitRegs /\ [][NextRegs]_vars

\* what the claim says amd64_binop_addr_attrs_equal computes from the records
BinopExpected(a, b) ==
    /\ a.op_mode = b.op_mode
    /\ a.size = b.size
    /\ a.addr.immediate = b.addr.immediate
    /\ a.addr.base_input = b.addr.base_input
    /\ a.addr.index_input = b.addr.index_input
    /\ a.addr.log_scale = b.addr.log_scale
    /\ a.addr.segment = b.addr.segment
    /\ IF a.op_mode \in {"AMD64_OP_REG_IMM", "AMD64_OP_ADDR_IMM"}
       THEN a.u.immediate = b.u.immediate
       ELSE a.u.reg_input = b.u.reg_input

\* C15: the result of amd64_binop_addr_attrs_equal is a function of the two
\* records alone: the second operand is compared as a 32-bit immediate for
\* REG_IMM and ADDR_IMM and by the position of the register input otherwise,
\* and comparing again after registers were assigned or changed gives the
\* same result.
C15_RegisterIndependent ==
    [][ (pc' \in {"compared", "recompared"} /\ pc' # pc) =>
            /\ result' = BinopExpected(cmp'.a, cmp'.b)
            /\ pc' = "recompared" => result' = result ]_vars

\* equal records compared again after their register inputs, at the same
\* position, were given different registers
C15_Witness ==
    /\ pc = "recompared"
    /\ cmp.a.op_mode = "AMD64_OP_REG_REG"
    /\ cmp.b.op_mode = "AMD64_OP_REG_REG"
    /\ cmp.a.u.reg_input = cmp.b.u.reg_input
    /\ cmp.ra[cmp.a.u.reg_input] # cmp.rb[cmp.b.u.reg_input]
    /\ result = TRUE


(* ------------------------------------ emission and dump read only (SpecRO) *)

\* emissions and dumps in one behaviour
MaxSteps == 2

\* instruction nodes handed to the dumper: binary operations and moves of a
\* 64-bit immediate
InsnNodes ==
    { [kind |-> "amd64_insn", attr |-> a]
      : a \in RegBinopAttrs \cup AmdRecords("movimm") }

\* the amd64_attr_t (and what extends it) of a node
get_amd64_attr_const(n) ==
    CASE n.kind = "amd64_insn" -> n.attr
      [] n.kind = "amd64_jcc" -> [op_mode |-> "AMD64_OP_CC", cc |-> n.cc]
      [] OTHER -> [op_mode |-> "AMD64_OP_NONE"]

get_op_mode_string(op_mode) ==
    CASE op_mode = "AMD64_OP_ADDR_IMM" -> "addr+imm"
      [] op_mode = "AMD64_OP_ADDR_REG" -> "addr+reg"
      [] op_mode = "AMD64_OP_ADDR" -> "addr"
      [] op_mode = "AMD64_OP_IMM32" -> "imm32"
      [] op_mode = "AMD64_OP_IMM64" -> "imm64"
      [] op_mode = "AMD64_OP_NONE" -> "none"
      [] op_mode = "AMD64_OP_REG_ADDR" -> "reg+addr"
      [] op_mode = "AMD64_OP_REG_IMM" -> "reg+imm"
      [] op_mode = "AMD64_OP_REG_REG" -> "reg+reg"
      [] op_mode = "AMD64_OP_REG" -> "reg"
      [] op_mode = "AMD64_OP_SHIFT_IMM" -> "shift_imm"
      [] op_mode = "AMD64_OP_SHIFT_REG" -> "shift_reg"
      [] op_mode = "AMD64_OP_X87" -> "x87"
      [] op_mode = "AMD64_OP_X87_ADDR_REG" -> "x87+addr+reg"
      [] op_mode = "AMD64_OP_CC" -> "cc"
      [] OTHER -> "invalid op_mode"

get_insn_size_string(mode) ==
    CASE mode = "INSN_SIZE_8" -> "8"
      [] mode = "INSN_SIZE_16" -> "16"
      [] mode = "INSN_SIZE_32" -> "32"
      [] mode = "INSN_SIZE_64" -> "64"
      [] mode = "INSN_SIZE_80" -> "80"
      [] mode = "INSN_SIZE_128" -> "128"
      [] OTHER -> "invalid insn_size"

\* the operand modes whose record embeds an amd64_addr_attr_t
amd64_has_addr_attr(op_mode) ==
    op_mode \in {"AMD64_OP_ADDR", "AMD64_OP_REG", "AMD64_OP_IMM32",
                 "AMD64_OP_REG_ADDR", "AMD64_OP_REG_REG", "AMD64_OP_REG_IMM",
                 "AMD64_OP_ADDR_REG", "AMD64_OP_ADDR_IMM",
                 "AMD64_OP_X87_ADDR_REG"}

x86_addr_variant_has_base(variant) ==
    variant \in {"X86_ADDR_BASE", "X86_ADDR_BASE_INDEX"}

x86_addr_variant_has_index(variant) ==
    variant \in {"X86_ADDR_BASE_INDEX", "X86_ADDR_INDEX"}

DumpReasons ==
    {"dump_node_opcode_txt", "dump_node_mode_txt", "dump_node_nodeattr_txt",
     "dump_node_info_txt"}

\* one fprintf of amd64_dump_node
DumpLine(fmt, v) == [fmt |-> fmt, v |-> v]

\* amd64_dump_node: what it prints to F for node n and the reason asked
amd64_dump_node(n, reason) ==
    LET attr    == get_amd64_attr_const(n)
        op_mode == attr.op_mode
        special ==
            CASE op_mode \in {"AMD64_OP_ADDR_REG", "AMD64_OP_REG_ADDR"} ->
                    << DumpLine("reg input: %d", << attr.u.reg_input >>) >>
              [] op_mode = "AMD64_OP_IMM64" ->
                    << DumpLine("imm64 entity: %+F", << attr.immediate.entity >>),
                       DumpLine("imm64 offset: 0x%X", << attr.immediate.offset >>) >>
              [] OTHER -> << >>
        variant == attr.addr.variant
        addr ==
            IF amd64_has_addr_attr(op_mode)
            THEN << DumpLine("size = %s", << get_insn_size_string(attr.size) >>),
                    DumpLine("am variant = %s", << variant >>) >>
                 \o (IF x86_addr_variant_has_base(variant)
                     THEN << DumpLine("base input: %d", << attr.addr.base_input >>) >>
                     ELSE << >>)
                 \o (IF x86_addr_variant_has_index(variant)
                     THEN << DumpLine("index input: %d", << attr.addr.index_input >>) >>
                     ELSE << >>)
                 \o << DumpLine("am imm: ", << attr.addr.immediate.kind,
                                               attr.addr.immediate.entity,
                                               attr.addr.immediate.offset >>) >>
            ELSE << >>
    IN  CASE reason = "dump_node_opcode_txt" -> << DumpLine("%s", << n.kind >>) >>
          [] reason = "dump_node_mode_txt" ->
                << DumpLine("[%s]", << IF n.kind = "amd64_jmp" THEN "X"
                                       ELSE IF n.kind = "amd64_jcc" THEN "T"
                                       ELSE "Lu" >>) >>
          [] reason = "dump_node_nodeattr_txt" -> << >>
          [] reason = "dump_node_info_txt" ->
                << DumpLine("mode = %s", << get_op_mode_string(op_mode) >>) >>
                \o special \o addr

InitRO ==
    /\ be_options \in [verbose_asm : BOOLEAN, pic_style : {BE_PIC_NONE}]
    /\ pc = "ro"
    /\ irg \in CFIrgs
    /\ nfuncs = 1
    /\ bi = 0
    /\ ni = 0
    /\ omit_fp = FALSE
    /\ frame_type_size = 0
    /\ callframe_offset = 0
    /\ layout = 1
    /\ writer = [omit_fp |-> 1, frame_type_size |-> 0, callframe_offset |-> 0,
                 layout |-> 1]
    /\ observed = {}
    /\ out = << >>
    /\ dwarf = [reg |-> "rbp", offset |-> 16, n |-> 1]
    /\ blk \in Blocks(irg.blk_sched)
    /\ \E n \in JmpNodes(irg.blk_sched) \cup JccNodes(irg.blk_sched) \cup InsnNodes :
          \E r \in RegisterAssignments : node = [irn |-> n, regs |-> r]
    /\ text = << >>
    /\ cmp = NoCmp
    /\ result = NoResult

\* what every step of SpecRO leaves alone besides the node
ROFrame ==
    /\ ni' = ni + 1
    /\ UNCHANGED <<be_options, pc, irg, nfuncs, bi, omit_fp, frame_type_size,
                   callframe_offset, layout, writer, observed, out, dwarf,
                   blk, cmp, result>>

\* emit_amd64_jmp run on the node: it writes text and nothing else
EmitJmpRO ==
    /\ pc = "ro" /\ ni < MaxSteps
    /\ node.irn.kind = "amd64_jmp"
    /\ text' = emit_amd64_jmp(irg.blk_sched, be_options, blk, node.irn)
    /\ node' = node
    /\ ROFrame

\* an emitter that stores the condition code it finally used in the node
EmitJccStoringFinalCC ==
    /\ pc = "ro" /\ ni < MaxSteps
    /\ node.irn.kind = "amd64_jcc"
    /\ text' = emit_amd64_jcc(irg.blk_sched, be_options, blk, node.irn)
    /\ node' = [node EXCEPT !.irn.cc =
                   LET cc == determine_final_cc(node.irn.eflags, node.irn.cc)
                   IN  IF fallthrough_possible(irg.blk_sched, blk,
                                               node.irn.projs["pn_Cond_true"].target)
                       THEN x86_negate_condition_code(cc) ELSE cc]
    /\ ROFrame

\* emit_amd64_jcc run on the node: the exchanged Projs and the negated code
\* are locals of the emitter; it writes text and nothing else
EmitJccRO ==
    /\ pc = "ro" /\ ni < MaxSteps
    /\ node.irn.kind = "amd64_jcc"
    /\ text' = emit_amd64_jcc(irg.blk_sched, be_options, blk, node.irn)
    /\ node' = node
    /\ ROFrame

\* amd64_dump_node run on the node for any reason
DumpNodeRO ==
    /\ pc = "ro" /\ ni < MaxSteps
    /\ \E reason \in DumpReasons : text' = amd64_dump_node(node.irn, reason)
    /\ node' = node
    /\ ROFrame

NextRO == EmitJmpRO \/ EmitJccRO \/ DumpNodeRO

SpecRO == InitRO /\ [][NextRO]_vars

PANIC == "<panic>"

\* amd64_insn_size_t
AllInsnSizes ==
    {"INSN_SIZE_8", "INSN_SIZE_16", "INSN_SIZE_32", "INSN_SIZE_64",
     "INSN_SIZE_80", "INSN_SIZE_128"}

amd64_get_insn_size_bits(size) ==
    CASE size = "INSN_SIZE_8" -> 8
      [] size = "INSN_SIZE_16" -> 16
      [] size = "INSN_SIZE_32" -> 32
      [] size = "INSN_SIZE_64" -> 64
      [] size = "INSN_SIZE_80" -> 80
      [] size = "INSN_SIZE_128" -> 128

get_gp_size_suffix_no_panic(size) ==
    CASE size = "INSN_SIZE_8" -> "b"
      [] size = "INSN_SIZE_16" -> "w"
      [] size = "INSN_SIZE_32" -> "l"
      [] OTHER -> "q"

get_gp_size_suffix(size) ==
    CASE size = "INSN_SIZE_8" -> "b"
      [] size = "INSN_SIZE_16" -> "w"
      [] size = "INSN_SIZE_32" -> "l"
      [] size = "INSN_SIZE_64" -> "q"
      [] OTHER -> PANIC

get_xmm_size_suffix(size) ==
    CASE size = "INSN_SIZE_32" -> "s"
      [] size = "INSN_SIZE_64" -> "d"
      [] size = "INSN_SIZE_128" -> "q"
      [] OTHER -> PANIC

get_x87_size_suffix(size) ==
    CASE size = "INSN_SIZE_32" -> "s"
      [] size = "INSN_SIZE_64" -> "l"
      [] size = "INSN_SIZE_80" -> "t"
      [] OTHER -> PANIC

\* the general-purpose registers, by global index
GpRegisters ==
    {"REG_RAX", "REG_RBX", "REG_RCX", "REG_RDX", "REG_RSP", "REG_RBP",
     "REG_RSI", "REG_RDI", "REG_R8", "REG_R9", "REG_R10", "REG_R11",
     "REG_R12", "REG_R13", "REG_R14", "REG_R15"}

\* reg->name
RegName(reg) ==
    CASE reg = "REG_RAX" -> "rax"
      [] reg = "REG_RBX" -> "rbx"
      [] reg = "REG_RCX" -> "rcx"
      [] reg = "REG_RDX" -> "rdx"
      [] reg = "REG_RSP" -> "rsp"
      [] reg = "REG_RBP" -> "rbp"
      [] reg = "REG_RSI" -> "rsi"
      [] reg = "REG_RDI" -> "rdi"
      [] reg = "REG_R8" -> "r8"
      [] reg = "REG_R9" -> "r9"
      [] reg = "REG_R10" -> "r10"
      [] reg = "REG_R11" -> "r11"
      [] reg = "REG_R12" -> "r12"
      [] reg = "REG_R13" -> "r13"
      [] reg = "REG_R14" -> "r14"
      [] reg = "REG_R15" -> "r15"
      [] reg = "REG_XMM0" -> "xmm0"

get_register_name_8bit(reg) ==
    CASE reg = "REG_RAX" -> "al"
      [] reg = "REG_RBX" -> "bl"
      [] reg = "REG_RCX" -> "cl"
      [] reg = "REG_RDX" -> "dl"
      [] reg = "REG_RSP" -> "spl"
      [] reg = "REG_RBP" -> "bpl"
      [] reg = "REG_RSI" -> "sil"
      [] reg = "REG_RDI" -> "dil"
      [] reg = "REG_R8" -> "r8b"
      [] reg = "REG_R9" -> "r9b"
      [] reg = "REG_R10" -> "r10b"
      [] reg = "REG_R11" -> "r11b"
      [] reg = "REG_R12" -> "r12b"
      [] reg = "REG_R13" -> "r13b"
      [] reg = "REG_R14" -> "r14b"
      [] reg = "REG_R15" -> "r15b"
      [] OTHER -> PANIC

get_register_name_8bit_high_all(reg) ==
    CASE reg = "REG_RAX" -> "ah"
      [] reg = "REG_RBX" -> "bh"
      [] reg = "REG_RCX" -> "ch"
      [] reg = "REG_RDX" -> "dh"
      [] OTHER -> get_register_name_8bit(reg)

get_register_name_8bit_high(reg) ==
    CASE reg = "REG_RAX" -> "ah"
      [] reg = "REG_RBX" -> "bh"
      [] reg = "REG_RCX" -> "ch"
      [] reg = "REG_RDX" -> "dh"
      [] OTHER -> PANIC

get_register_name_16bit(reg) ==
    CASE reg = "REG_RAX" -> "ax"
      [] reg = "REG_RBX" -> "bx"
      [] reg = "REG_RCX" -> "cx"
      [] reg = "REG_RDX" -> "dx"
      [] reg = "REG_RSP" -> "sp"
      [] reg = "REG_RBP" -> "bp"
      [] reg = "REG_RSI" -> "si"
      [] reg = "REG_RDI" -> "di"
      [] reg = "REG_R8" -> "r8w"
      [] reg = "REG_R9" -> "r9w"
      [] reg = "REG_R10" -> "r10w"
      [] reg = "REG_R11" -> "r11w"
      [] reg = "REG_R12" -> "r12w"
      [] reg = "REG_R13" -> "r13w"
      [] reg = "REG_R14" -> "r14w"
      [] reg = "REG_R15" -> "r15w"
      [] OTHER -> PANIC

get_register_name_32bit_legacy16(reg) ==
    CASE reg = "REG_RAX" -> "eax"
      [] reg = "REG_RBX" -> "ebx"
      [] reg = "REG_RCX" -> "ecx"
      [] reg = "REG_RDX" -> "edx"
      [] reg = "REG_RSP" -> "esp"
      [] reg = "REG_RBP" -> "ebp"
      [] reg = "REG_RSI" -> "esi"
      [] reg = "REG_RDI" -> "edi"
      [] reg = "REG_R8" -> "r8w"
      [] reg = "REG_R9" -> "r9w"
      [] reg = "REG_R10" -> "r10w"
      [] reg = "REG_R11" -> "r11w"
      [] reg = "REG_R12" -> "r12w"
      [] reg = "REG_R13" -> "r13w"
      [] reg = "REG_R14" -> "r14w"
      [] reg = "REG_R15" -> "r15w"
      [] OTHER -> PANIC

get_register_name_32bit(reg) ==
    CASE reg = "REG_RAX" -> "eax"
      [] reg = "REG_RBX" -> "ebx"
      [] reg = "REG_RCX" -> "ecx"
      [] reg = "REG_RDX" -> "edx"
      [] reg = "REG_RSP" -> "esp"
      [] reg = "REG_RBP" -> "ebp"
      [] reg = "REG_RSI" -> "esi"
      [] reg = "REG_RDI" -> "edi"
      [] reg = "REG_R8" -> "r8d"
      [] reg = "REG_R9" -> "r9d"
      [] reg = "REG_R10" -> "r10d"
      [] reg = "REG_R11" -> "r11d"
      [] reg = "REG_R12" -> "r12d"
      [] reg = "REG_R13" -> "r13d"
      [] reg = "REG_R14" -> "r14d"
      [] reg = "REG_R15" -> "r15d"
      [] OTHER -> PANIC

get_register_name_mode(reg, size) ==
    CASE size = "INSN_SIZE_8" -> get_register_name_8bit(reg)
      [] size = "INSN_SIZE_16" -> get_register_name_16bit(reg)
      [] size = "INSN_SIZE_32" -> get_register_name_32bit(reg)
      [] size \in {"INSN_SIZE_64", "INSN_SIZE_80", "INSN_SIZE_128"} -> RegName(reg)
      [] OTHER -> PANIC

\* no ir_mode given
NoMode == [arithmetic |-> "none", size_bits |-> 0]

\* the ir_modes of an asm operand
IrModes ==
    [arithmetic : {"irma_twos_complement"}, size_bits : {8, 16, 32, 64, 128}]
    \cup [arithmetic : {"irma_ieee754"}, size_bits : {32, 64}]

get_register_name_ir_mode(reg, mode) ==
    IF mode.arithmetic # "irma_twos_complement" THEN RegName(reg)
    ELSE CASE mode.size_bits = 8 -> get_register_name_8bit(reg)
           [] mode.size_bits = 16 -> get_register_name_16bit(reg)
           [] mode.size_bits = 32 -> get_register_name_32bit(reg)
           [] mode.size_bits = 64 -> RegName(reg)
           [] OTHER -> PANIC

\* the modifiers of an asm operand: none, the five known, and one unknown
AsmModifiers == {"", "b", "h", "w", "k", "q", "x"}

\* what an emitter leaves behind: the text written and whether it panicked
Emitted(str) == [panicked |-> FALSE, text |-> str]
Panicked == [panicked |-> TRUE, text |-> ""]

\* emit_amd64_asm_register: the name is looked up first, so a panic in the
\* lookup leaves nothing written
emit_amd64_asm_register(reg, modifier, mode) ==
    LET name ==
          CASE modifier = "" ->
                  IF mode # NoMode THEN get_register_name_ir_mode(reg, mode)
                                   ELSE RegName(reg)
            [] modifier = "b" -> get_register_name_8bit(reg)
            [] modifier = "h" -> get_register_name_8bit_high(reg)
            [] modifier = "w" -> get_register_name_16bit(reg)
            [] modifier = "k" -> get_register_name_32bit(reg)
            [] modifier = "q" -> RegName(reg)
            [] OTHER -> PANIC
    IN  IF name = PANIC THEN Panicked ELSE Emitted("%" \o name)

FormatD_blank_zero(v) == IF v = 0 THEN "" ELSE ToString(v)

FormatPlusD_unsigned(v) == ToString(v)

\* printf("%d") and printf("%+d")
FormatD(v) == ToString(v)
FormatPlusD(v) == IF v >= 0 THEN "+" \o ToString(v) ELSE ToString(v)

\* printf("%X") of a value that is not negative
HexDigit(d) ==
    CASE d < 10 -> ToString(d)
      [] d = 10 -> "A" [] d = 11 -> "B" [] d = 12 -> "C"
      [] d = 13 -> "D" [] d = 14 -> "E" [] d = 15 -> "F"

RECURSIVE FormatX(_)
FormatX(v) == IF v < 16 THEN HexDigit(v)
              ELSE FormatX(v \div 16) \o HexDigit(v % 16)

\* emit_register
emit_register(reg) == "%" \o RegName(reg)

emit_relocation_no_offset_lenient(kind, entity) ==
    CASE kind = "X86_IMM_GOTPCREL" -> [panicked |-> FALSE, text |-> entity \o "@GOTPCREL"]
      [] kind = "X86_IMM_PLT" -> [panicked |-> FALSE, text |-> entity \o "@PLT"]
      [] OTHER -> [panicked |-> FALSE, text |-> entity]

\* emit_relocation_no_offset: the entity's name, then the suffix of the kind
emit_relocation_no_offset(kind, entity) ==
    CASE kind \in {"X86_IMM_ADDR", "X86_IMM_PCREL"} -> Emitted(entity)
      [] kind = "X86_IMM_GOTPCREL" -> Emitted(entity \o "@GOTPCREL")
      [] kind = "X86_IMM_PLT" -> Emitted(entity \o "@PLT")
      [] OTHER -> [panicked |-> TRUE, text |-> entity]

\* amd64_emit_immediate64: a plain value in hexadecimal, else the relocation
\* and the addend with its sign when it is not zero
amd64_emit_immediate64(imm) ==
    IF imm.kind = "X86_IMM_VALUE" THEN Emitted("0x" \o FormatX(imm.offset))
    ELSE LET reloc == emit_relocation_no_offset(imm.kind, imm.entity)
         IN  IF reloc.panicked THEN reloc
             ELSE Emitted(reloc.text
                          \o (IF imm.offset # 0 THEN FormatPlusD(imm.offset) ELSE ""))

\* amd64_emit_immediate32
amd64_emit_immediate32(prefix, imm) ==
    LET dollar == IF prefix THEN "$" ELSE ""
    IN  IF imm.kind = "X86_IMM_VALUE" THEN Emitted(dollar \o FormatD(imm.offset))
        ELSE LET reloc == emit_relocation_no_offset(imm.kind, imm.entity)
             IN  IF reloc.panicked
                 THEN [panicked |-> TRUE, text |-> dollar \o reloc.text]
                 ELSE Emitted(dollar \o reloc.text
                              \o (IF imm.offset # 0 THEN FormatPlusD(imm.offset)
                                                    ELSE ""))

\* the scale printed after the index register: 1 << log_scale
ScaleFactor(log_scale) == 2 ^ log_scale

amd64_emit_addr_scale_always(regs, addr) ==
    Emitted(FormatD(addr.immediate.offset) \o "("
            \o emit_register(regs[addr.base_input]) \o ","
            \o emit_register(regs[addr.index_input])
            \o "," \o ToString(ScaleFactor(addr.log_scale)) \o ")")

\* amd64_emit_addr; regs are the registers of the node's inputs
amd64_emit_addr(regs, addr) ==
    LET offset  == addr.immediate.offset
        entity  == addr.immediate.entity
        variant == addr.variant
        reloc   == emit_relocation_no_offset(addr.immediate.kind, entity)
        disp    == IF entity # NoEntity
                   THEN reloc.text \o (IF offset # 0 THEN FormatPlusD(offset) ELSE "")
                   ELSE IF offset # 0 \/ variant = "X86_ADDR_JUST_IMM"
                        THEN FormatD(offset)
                        ELSE ""
        base    == IF x86_addr_variant_has_base(variant)
                   THEN emit_register(regs[addr.base_input])
                   ELSE ""
        index   == IF x86_addr_variant_has_index(variant)
                   THEN "," \o emit_register(regs[addr.index_input])
                        \o (IF addr.log_scale > 0
                            THEN "," \o ToString(ScaleFactor(addr.log_scale))
                            ELSE "")
                   ELSE ""
        paren   == IF variant # "X86_ADDR_JUST_IMM"
                   THEN "(" \o (IF variant = "X86_ADDR_RIP" THEN "%rip"
                                                            ELSE base \o index)
                        \o ")"
                   ELSE ""
    IN  IF entity # NoEntity /\ reloc.panicked THEN reloc
        ELSE Emitted(disp \o paren)

\* largest displacement of the addressing modes emitted
MaxDisp == 8

\* x86_immediate_kind_t
ImmediateKinds ==
    {"X86_IMM_VALUE", "X86_IMM_ADDR", "X86_IMM_PCREL", "X86_IMM_TLS_IE",
     "X86_IMM_TLS_LE", "X86_IMM_PICBASE_REL", "X86_IMM_FRAMEENT",
     "X86_IMM_GOT", "X86_IMM_GOTOFF", "X86_IMM_GOTPCREL", "X86_IMM_PLT"}

\* the kinds of an immediate that names an entity
RelocationKinds == ImmediateKinds \ {"X86_IMM_VALUE"}

\* the immediates of addressing modes at emission: a plain displacement or a
\* relocation against an entity that is not frame relative
EmitImms ==
    [kind : {"X86_IMM_VALUE"}, entity : {NoEntity},
     offset : {-MaxDisp, 0, MaxDisp}]
    \cup [kind : RelocationKinds, entity : {"e1"},
          offset : {-MaxDisp, 0, MaxDisp}]

\* the 64-bit immediates of a movimm at emission: a plain value is written
\* unsigned
EmitImm64s ==
    [kind : {"X86_IMM_VALUE"}, entity : {NoEntity}, offset : {0, MaxDisp, 255}]
    \cup [kind : RelocationKinds, entity : {"e1"},
          offset : {-MaxDisp, 0, MaxDisp}]

\* the addressing modes handed to amd64_emit_addr; log_scale is a 2-bit field
EmitAddrs ==
    [immediate : EmitImms, base_input : {0, 1}, index_input : {0, 1},
     log_scale : 0 .. 3,
     variant : AddrVariants \cup {"X86_ADDR_INDEX"}]

\* the registers of the inputs of the node whose address is emitted
InputRegisters == [{0, 1} -> {"REG_RAX", "REG_RCX"}]

\* the calls of the size-suffix, register-name and address emitters
FmtCalls ==
    [fn : {"get_gp_size_suffix", "get_xmm_size_suffix", "get_x87_size_suffix"},
     size : AllInsnSizes]
    \cup [fn : {"get_register_name_mode"}, reg : GpRegisters, size : AllInsnSizes]
    \cup [fn : {"emit_amd64_asm_register"}, reg : GpRegisters,
          modifier : AsmModifiers, mode : {NoMode} \cup IrModes]
    \cup [fn : {"amd64_emit_addr"}, regs : InputRegisters, addr : EmitAddrs]
    \cup [fn : {"emit_relocation_no_offset"}, kind : ImmediateKinds,
          entity : {"e1"}]
    \cup [fn : {"amd64_emit_immediate32"}, prefix : BOOLEAN, imm : EmitImms]
    \cup [fn : {"amd64_emit_immediate64"}, imm : EmitImm64s]

InitFmt ==
    /\ be_options = [verbose_asm |-> FALSE, pic_style |-> BE_PIC_NONE]
    /\ pc = "fmt"
    /\ irg = NoIrg
    /\ nfuncs = 0
    /\ bi = 0
    /\ ni = 0
    /\ omit_fp = FALSE
    /\ frame_type_size = 0
    /\ callframe_offset = 0
    /\ layout = 0
    /\ writer = [omit_fp |-> 0, frame_type_size |-> 0, callframe_offset |-> 0,
                 layout |-> 0]
    /\ observed = {}
    /\ out = << >>
    /\ dwarf = [reg |-> "none", offset |-> 0, n |-> 0]
    /\ blk = NoBlock
    /\ node \in FmtCalls
    /\ text = << >>
    /\ cmp = NoCmp
    /\ result = NoResult

FmtFrame ==
    UNCHANGED <<be_options, irg, nfuncs, bi, ni, omit_fp, frame_type_size,
                callframe_offset, layout, writer, observed, out, dwarf, blk,
                node, cmp, result>>

\* a lookup returned name, or panicked
Returned(name) ==
    /\ pc' = IF name = PANIC THEN "panic" ELSE "formatted"
    /\ text' = IF name = PANIC THEN << >> ELSE << name >>
    /\ FmtFrame

\* an emitter wrote e.text, or panicked
Wrote(e) ==
    /\ pc' = IF e.panicked THEN "panic" ELSE "formatted"
    /\ text' = IF e.text = "" THEN << >> ELSE << e.text >>
    /\ FmtFrame

GetGpSizeSuffix ==
    /\ pc = "fmt" /\ node.fn = "get_gp_size_suffix"
    /\ Returned(get_gp_size_suffix(node.size))

GetXmmSizeSuffix ==
    /\ pc = "fmt" /\ node.fn = "get_xmm_size_suffix"
    /\ Returned(get_xmm_size_suffix(node.size))

GetX87SizeSuffix ==
    /\ pc = "fmt" /\ node.fn = "get_x87_size_suffix"
    /\ Returned(get_x87_size_suffix(node.size))

GetRegisterNameMode ==
    /\ pc = "fmt" /\ node.fn = "get_register_name_mode"
    /\ Returned(get_register_name_mode(node.reg, node.size))

EmitAsmRegister ==
    /\ pc = "fmt" /\ node.fn = "emit_amd64_asm_register"
    /\ Wrote(emit_amd64_asm_register(node.reg, node.modifier, node.mode))

EmitAddr ==
    /\ pc = "fmt" /\ node.fn = "amd64_emit_addr"
    /\ Wrote(amd64_emit_addr(node.regs, node.addr))

EmitRelocationNoOffset ==
    /\ pc = "fmt" /\ node.fn = "emit_relocation_no_offset"
    /\ Wrote(emit_relocation_no_offset(node.kind, node.entity))

EmitImmediate32 ==
    /\ pc = "fmt" /\ node.fn = "amd64_emit_immediate32"
    /\ Wrote(amd64_emit_immediate32(node.prefix, node.imm))

EmitImmediate64 ==
    /\ pc = "fmt" /\ node.fn = "amd64_emit_immediate64"
    /\ Wrote(amd64_emit_immediate64(node.imm))

NextFmt ==
    \/ EmitRelocationNoOffset
    \/ EmitImmediate32
    \/ EmitImmediate64
    \/ GetGpSizeSuffix
    \/ GetXmmSizeSuffix
    \/ GetX87SizeSuffix
    \/ GetRegisterNameMode
    \/ EmitAsmRegister
    \/ EmitAddr

SpecFmt == InitFmt /\ [][NextFmt]_vars

(* ------------------------------------------- claims on suffixes and names *)

\* the call of fn has finished, by return or by panic
Called(fn) == pc \in {"formatted", "panic"} /\ node.fn = fn

\* the suffix each class gives a width, as the claim lists them
SuffixTable ==
    [get_gp_size_suffix  |-> [b \in {8, 16, 32, 64} |->
                                CASE b = 8 -> "b" [] b = 16 -> "w"
                                  [] b = 32 -> "l" [] b = 64 -> "q"],
     get_xmm_size_suffix |-> [b \in {32, 64, 128} |->
                                CASE b = 32 -> "s" [] b = 64 -> "d"
                                  [] b = 128 -> "q"],
     get_x87_size_suffix |-> [b \in {32, 64, 80} |->
                                CASE b = 32 -> "s" [] b = 64 -> "l"
                                  [] b = 80 -> "t"]]

\* C17: each size-suffix mapping returns its letter on exactly the sizes of
\* its class and panics on every other size: general purpose 8/16/32/64 to
\* b/w/l/q, SSE 32/64/128 to s/d/q, x87 32/64/80 to s/l/t.
C17_SuffixTotalOrPanic ==
    \A fn \in DOMAIN SuffixTable :
        Called(fn) =>
            LET bits == amd64_get_insn_size_bits(node.size)
            IN  IF bits \in DOMAIN SuffixTable[fn]
                THEN pc = "formatted" /\ text = << SuffixTable[fn][bits] >>
                ELSE pc = "panic" /\ text = << >>

\* the general-purpose mapping panicked on the 128-bit size
C17_Witness ==
    /\ pc = "panic"
    /\ node.fn = "get_gp_size_suffix"
    /\ node.size = "INSN_SIZE_128"
    /\ text = << >>

\* the architecture's name of a general-purpose register at a width
ArchMnemonic(reg, bits) ==
    LET letter == CASE reg = "REG_RAX" -> "a" [] reg = "REG_RBX" -> "b"
                    [] reg = "REG_RCX" -> "c" [] reg = "REG_RDX" -> "d"
                    [] OTHER -> ""
        stem   == CASE reg = "REG_RSP" -> "sp" [] reg = "REG_RBP" -> "bp"
                    [] reg = "REG_RSI" -> "si" [] reg = "REG_RDI" -> "di"
                    [] OTHER -> ""
        number == CASE reg = "REG_R8" -> "r8" [] reg = "REG_R9" -> "r9"
                    [] reg = "REG_R10" -> "r10" [] reg = "REG_R11" -> "r11"
                    [] reg = "REG_R12" -> "r12" [] reg = "REG_R13" -> "r13"
                    [] reg = "REG_R14" -> "r14" [] reg = "REG_R15" -> "r15"
                    [] OTHER -> ""
    IN  IF letter # ""
        THEN CASE bits = 8 -> letter \o "l"
               [] bits = 16 -> letter \o "x"
               [] bits = 32 -> "e" \o letter \o "x"
               [] bits = 64 -> "r" \o letter \o "x"
        ELSE IF stem # ""
        THEN CASE bits = 8 -> stem \o "l"
               [] bits = 16 -> stem
               [] bits = 32 -> "e" \o stem
               [] bits = 64 -> "r" \o stem
        ELSE CASE bits = 8 -> number \o "b"
               [] bits = 16 -> number \o "w"
               [] bits = 32 -> number \o "d"
               [] bits = 64 -> number

\* the widths a general-purpose register is named at
GpSizes == {"INSN_SIZE_8", "INSN_SIZE_16", "INSN_SIZE_32", "INSN_SIZE_64"}

\* C18: for the sixteen general-purpose registers and the widths 8, 16, 32
\* and 64, get_register_name_mode returns the architecture's mnemonic, no two
\* different (register, width) pairs get the same name, and width 64 gives
\* the register's own name.
C18_RegisterNamesUnique ==
    (Called("get_register_name_mode") /\ node.size \in GpSizes) =>
        /\ pc = "formatted"
        /\ text = << ArchMnemonic(node.reg, amd64_get_insn_size_bits(node.size)) >>
        /\ node.size = "INSN_SIZE_64" => text = << RegName(node.reg) >>
        /\ \A r \in GpRegisters : \A z \in GpSizes :
              <<r, z>> # <<node.reg, node.size>> =>
                  << get_register_name_mode(r, z) >> # text

\* r8 named at 32 bits
C18_Witness ==
    /\ pc = "formatted"
    /\ node.fn = "get_register_name_mode"
    /\ node.reg = "REG_R8" /\ node.size = "INSN_SIZE_32"
    /\ text = << "r8d" >>

\* C19: the high-byte name exists for rax, rbx, rcx and rdx only, as ah, bh,
\* ch and dh; asked for any other general-purpose register the emitter
\* panics and writes no register name.
C19_HighByteLegacyOnly ==
    (Called("emit_amd64_asm_register") /\ node.modifier = "h") =>
        LET high == CASE node.reg = "REG_RAX" -> "ah" [] node.reg = "REG_RBX" -> "bh"
                      [] node.reg = "REG_RCX" -> "ch" [] node.reg = "REG_RDX" -> "dh"
                      [] OTHER -> ""
        IN  IF high # ""
            THEN pc = "formatted" /\ text = << "%" \o high >>
            ELSE pc = "panic" /\ text = << >>

\* the high byte of rsi was asked for: a panic and nothing written
C19_Witness ==
    /\ pc = "panic"
    /\ node.fn = "emit_amd64_asm_register"
    /\ node.modifier = "h"
    /\ node.reg = "REG_RSI"
    /\ text = << >>

\* C20: an addressing mode without relocation whose variant has base and
\* index is written as <disp>(%base,%index,<2^exponent>), the displacement
\* only if nonzero and the ",<factor>" only if the exponent is above 0; the
\* factor written is 2, 4 or 8.
C20_BaseIndexScale ==
    ( /\ Called("amd64_emit_addr")
      /\ node.addr.immediate.entity = NoEntity
      /\ node.addr.variant = "X86_ADDR_BASE_INDEX" ) =>
        LET disp   == node.addr.immediate.offset
            factor == CASE node.addr.log_scale = 1 -> "2"
                        [] node.addr.log_scale = 2 -> "4"
                        [] node.addr.log_scale = 3 -> "8"
                        [] OTHER -> ""
        IN  /\ pc = "formatted"
            /\ text = << (IF disp # 0 THEN ToString(disp) ELSE "")
                         \o "(%" \o RegName(node.regs[node.addr.base_input])
                         \o ",%" \o RegName(node.regs[node.addr.index_input])
                         \o (IF factor # "" THEN "," \o factor ELSE "")
                         \o ")" >>

\* displacement 8, base rax, index rcx, exponent 3
C20_Witness ==
    /\ pc = "formatted"
    /\ node.fn = "amd64_emit_addr"
    /\ text = << "8(%rax,%rcx,8)" >>

(* ------------------------------------ claims on relocations and displacements *)

\* the kinds a relocation is written for, and the suffix each gets
RenderedKinds ==
    {"X86_IMM_ADDR", "X86_IMM_PCREL", "X86_IMM_GOTPCREL", "X86_IMM_PLT"}

KindSuffix(kind) ==
    CASE kind = "X86_IMM_GOTPCREL" -> "@GOTPCREL"
      [] kind = "X86_IMM_PLT" -> "@PLT"
      [] OTHER -> ""

\* a signed decimal, and an addend that is written only when it is not zero
SignedDecimal(v) == IF v < 0 THEN "-" \o ToString(-v) ELSE ToString(v)
Addend(v) == IF v = 0 THEN "" ELSE IF v > 0 THEN "+" \o ToString(v)
                                   ELSE "-" \o ToString(-v)

\* the parenthesized register part of an addressing mode
RegisterPart(regs, addr) ==
    LET base  == "%" \o RegName(regs[addr.base_input])
        index == ",%" \o RegName(regs[addr.index_input])
                 \o (CASE addr.log_scale = 1 -> ",2" [] addr.log_scale = 2 -> ",4"
                       [] addr.log_scale = 3 -> ",8" [] OTHER -> "")
    IN  CASE addr.variant = "X86_ADDR_JUST_IMM" -> ""
          [] addr.variant = "X86_ADDR_RIP" -> "(%rip)"
          [] addr.variant = "X86_ADDR_BASE" -> "(" \o base \o ")"
          [] addr.variant = "X86_ADDR_BASE_INDEX" -> "(" \o base \o index \o ")"
          [] addr.variant = "X86_ADDR_INDEX" -> "(" \o index \o ")"

\* C21: an addressing mode with a relocation is written as the entity's name
\* and the suffix of its kind, then the addend with its sign only if it is not
\* zero, then the register part; with addend zero and a base register that is
\* name(%base), and the RIP variant ends in (%rip) with no other register.
C21_RelocationThenRegisters ==
    ( /\ Called("amd64_emit_addr")
      /\ node.addr.immediate.entity # NoEntity
      /\ node.addr.immediate.kind \in RenderedKinds ) =>
        LET imm  == node.addr.immediate
            name == imm.entity \o KindSuffix(imm.kind)
        IN  /\ pc = "formatted"
            /\ text = << name \o Addend(imm.offset)
                         \o RegisterPart(node.regs, node.addr) >>
            /\ (imm.offset = 0 /\ node.addr.variant = "X86_ADDR_BASE") =>
                  text = << name \o "(%"
                            \o RegName(node.regs[node.addr.base_input]) \o ")" >>
            /\ node.addr.variant = "X86_ADDR_RIP" =>
                  text = << name \o Addend(imm.offset) \o "(%rip)" >>

\* entity e1 with addend zero against base rax
C21_Witness ==
    /\ pc = "formatted"
    /\ node.fn = "amd64_emit_addr"
    /\ node.addr.variant = "X86_ADDR_BASE"
    /\ node.addr.immediate.kind = "X86_IMM_ADDR"
    /\ text = << "e1(%rax)" >>

\* C22: without relocation the immediate-only variant is written as exactly
\* the signed decimal displacement, "0" included, and no parenthesis; every
\* other variant with displacement zero starts with the opening parenthesis.
C22_DisplacementOnly ==
    (Called("amd64_emit_addr") /\ node.addr.immediate.entity = NoEntity) =>
        /\ pc = "formatted"
        /\ node.addr.variant = "X86_ADDR_JUST_IMM" =>
              text = << SignedDecimal(node.addr.immediate.offset) >>
        /\ (node.addr.variant # "X86_ADDR_JUST_IMM"
            /\ node.addr.immediate.offset = 0) =>
              text = << RegisterPart(node.regs, node.addr) >>

\* the immediate-only variant with displacement zero
C22_Witness ==
    /\ pc = "formatted"
    /\ node.fn = "amd64_emit_addr"
    /\ node.addr.variant = "X86_ADDR_JUST_IMM"
    /\ node.addr.immediate.entity = NoEntity
    /\ text = << "0" >>

\* a relocation of the given kind was written as name and suffix, or the
\* emitter panicked on a kind that has no textual form
RelocationWritten(kind, prefix, entity, offset) ==
    IF kind \in RenderedKinds
    THEN /\ pc = "formatted"
         /\ text = << prefix \o entity \o KindSuffix(kind) \o Addend(offset) >>
    ELSE pc = "panic"

\* C23: a relocation gets no suffix for the absolute and PC-relative kinds,
\* @GOTPCREL and @PLT for those kinds, and a panic for every other kind; the
\* same holds in addressing modes, 32-bit immediates and 64-bit immediates.
C23_RelocationSuffixOrPanic ==
    /\ Called("emit_relocation_no_offset") =>
          RelocationWritten(node.kind, "", node.entity, 0)
    /\ (Called("amd64_emit_addr") /\ node.addr.immediate.entity # NoEntity) =>
          (pc = "panic") = (node.addr.immediate.kind \notin RenderedKinds)
    /\ (Called("amd64_emit_immediate32") /\ node.imm.kind # "X86_IMM_VALUE") =>
          RelocationWritten(node.imm.kind, IF node.prefix THEN "$" ELSE "",
                            node.imm.entity, node.imm.offset)
    /\ (Called("amd64_emit_immediate64") /\ node.imm.kind # "X86_IMM_VALUE") =>
          RelocationWritten(node.imm.kind, "", node.imm.entity, node.imm.offset)

\* a 64-bit immediate against a thread-local entity: a panic
C23_Witness ==
    /\ pc = "panic"
    /\ node.fn = "amd64_emit_immediate64"
    /\ node.imm.kind = "X86_IMM_TLS_IE"

(* ------------------------------------ the emission templates (SpecEmitf) *)

\* reg->cls
RegClass(reg) == IF reg = "REG_XMM0" THEN "CLASS_amd64_xmm" ELSE "CLASS_amd64_gp"

\* emit_register_sized: the percent sign is written before the name is
\* looked up
emit_register_sized(reg, size) ==
    LET name == get_register_name_mode(reg, size)
    IN  IF name = PANIC THEN [panicked |-> TRUE, text |-> "%"]
        ELSE Emitted("%" \o name)

emit_register_mode_sized_only(reg, size) == emit_register_sized(reg, size)

emit_register_mode(reg, size) ==
    IF RegClass(reg) = "CLASS_amd64_xmm" THEN Emitted(emit_register(reg))
    ELSE emit_register_sized(reg, size)

\* two emitters one after the other: the second runs only if the first
\* returned
Then(a, b) ==
    IF a.panicked THEN a
    ELSE [panicked |-> b.panicked, text |-> a.text \o b.text]

\* emit_shiftop
emit_shiftop(n) ==
    CASE n.op_mode = "AMD64_OP_SHIFT_IMM" ->
            Then(Emitted("$0x" \o FormatX(n.shift_immediate) \o ", "),
                 emit_register_mode(n.in_regs[0], n.size))
      [] n.op_mode = "AMD64_OP_SHIFT_REG" ->
            Then(emit_register_mode(n.in_regs[1], "INSN_SIZE_8"),
                 Then(Emitted(", "), emit_register_mode(n.in_regs[0], n.size)))
      [] OTHER -> Panicked

amd64_emit_am_star_always(n, indirect_star) ==
    Then(Emitted("*"), amd64_emit_addr(n.in_regs, n.addr))

\* amd64_emit_am; emit_addr_reg and emit_addr are its two shared tails
amd64_emit_am(n, indirect_star) ==
    LET emit_addr_reg == emit_register_mode(n.in_regs[n.addr.base_input], n.size)
        emit_addr     == amd64_emit_addr(n.in_regs, n.addr)
        star          == Emitted(IF indirect_star THEN "*" ELSE "")
    IN  CASE n.op_mode = "AMD64_OP_REG_IMM" ->
                Then(amd64_emit_immediate32(TRUE, n.u.immediate),
                     Then(Emitted(", "), emit_addr_reg))
          [] n.op_mode = "AMD64_OP_REG_REG" ->
                Then(emit_register_mode(n.in_regs[1], n.size),
                     Then(Emitted(", "), emit_addr_reg))
          [] n.op_mode = "AMD64_OP_REG_ADDR" ->
                Then(emit_addr,
                     Then(Emitted(", "),
                          emit_register_mode(n.in_regs[n.u.reg_input], n.size)))
          [] n.op_mode = "AMD64_OP_ADDR_IMM" ->
                Then(amd64_emit_immediate32(TRUE, n.u.immediate),
                     Then(Emitted(", "), emit_addr))
          [] n.op_mode \in {"AMD64_OP_ADDR", "AMD64_OP_X87_ADDR_REG"} ->
                Then(star, emit_addr)
          [] n.op_mode = "AMD64_OP_ADDR_REG" ->
                Then(emit_register_mode(n.in_regs[n.u.reg_input], n.size),
                     Then(Emitted(", "), emit_addr))
          [] n.op_mode = "AMD64_OP_REG" -> Then(star, emit_addr_reg)
          [] n.op_mode = "AMD64_OP_IMM32" ->
                amd64_emit_immediate32(FALSE, n.addr.immediate)
          [] n.op_mode = "AMD64_OP_X87" -> Emitted("")
          [] OTHER -> Panicked

\* one call of the output buffer: the function called and what it wrote
Piece(f, s) == [f |-> f, s |-> s]

\* the character that ends a template
NUL == ""

\* fmt[i], with the terminator behind the last character
At(fmt, i) == IF i <= Len(fmt) THEN fmt[i] ELSE NUL

DigitChars == {"0", "1", "2", "3", "4", "5", "6", "7", "8", "9"}

is_digit(c) == c \in DigitChars

\* c - '0'
DigitValue(c) ==
    CASE c = "0" -> 0 [] c = "1" -> 1 [] c = "2" -> 2 [] c = "3" -> 3
      [] c = "4" -> 4 [] c = "5" -> 5 [] c = "6" -> 6 [] c = "7" -> 7
      [] c = "8" -> 8 [] c = "9" -> 9

\* the modifier flags: EMIT_IGNORE_MODE, EMIT_FORCE_32, EMIT_CONV_DEST and
\* EMIT_INDIRECT_STAR
ModifierChars == {"^", "3", "#", "*"}

\* where the run of literal characters that starts at i ends
LiteralEnd(fmt, i) ==
    CHOOSE j \in i .. Len(fmt) + 1 :
        /\ At(fmt, j) \in {"%", "\n", NUL}
        /\ \A k \in i .. j - 1 : At(fmt, k) \notin {"%", "\n", NUL}

\* where the run of modifier flags that starts at i ends
ModifiersEnd(fmt, i) ==
    CHOOSE j \in i .. Len(fmt) + 1 :
        /\ At(fmt, j) \notin ModifierChars
        /\ \A k \in i .. j - 1 : At(fmt, k) \in ModifierChars

\* the characters i .. j-1 of the template as one string
RECURSIVE Concat(_, _, _)
Concat(fmt, i, j) == IF i >= j THEN "" ELSE fmt[i] \o Concat(fmt, i + 1, j)

\* get_amd64_insn_size
get_amd64_insn_size(n) == n.size

\* x86_emit_condition_code: the sixteen mnemonics, shared by the integer
\* and the floating-point codes
x86_emit_condition_code(cc) ==
    IF cc \notin ConditionCodes THEN Panicked
    ELSE Emitted(<< "o", "no", "b", "ae", "e", "ne", "be", "a", "s", "ns",
                    "p", "np", "l", "ge", "le", "g" >>[(cc % 16) + 1])

\* be_gas_emit_block_name
BlockName(block) == ".L" \o ToString(block)

\* a size suffix written with be_emit_char, unless its lookup panicked
SuffixChar(suffix) == IF suffix = PANIC THEN Panicked ELSE Emitted(suffix)

emit_R_own_size(n, mod, reg) == emit_register_mode(reg, get_amd64_insn_size(n))

\* the label emit_R of amd64_emitf: the register of %D, %R and %S
emit_R(n, mod, reg) ==
    IF "^" \in mod THEN Emitted(emit_register(reg))
    ELSE IF "3" \in mod THEN emit_register_mode(reg, "INSN_SIZE_32")
    ELSE IF "#" \in mod
         THEN emit_register_mode(reg, IF get_amd64_insn_size(n) = "INSN_SIZE_64"
                                      THEN "INSN_SIZE_64" ELSE "INSN_SIZE_32")
         ELSE emit_register_mode(reg, get_amd64_insn_size(n))

\* what one directive did: the text of the emitter e it ran, the characters
\* it consumed behind its letter and the variadic arguments it fetched
Directive(e, used, ap) ==
    [panicked |-> e.panicked,
     pieces   |-> IF e.text = "" THEN << >> ELSE << Piece("emit", e.text) >>,
     used     |-> used,
     ap       |-> ap]

\* the switch over the directive letter c, with sub the character behind it
amd64_emitf_directive(n, mod, c, sub, args, ap) ==
    LET unknown == Directive(Panicked, 0, ap)
    IN  CASE c = "%" ->
                [panicked |-> FALSE, pieces |-> << Piece("be_emit_char", "%") >>,
                 used |-> 0, ap |-> ap]
          [] c = "A" ->
                CASE sub = "F" ->
                        Directive(Emitted(IF n.x87.res_in_reg
                                          THEN "%st, %" \o n.x87.reg
                                          ELSE "%" \o n.x87.reg \o ", %st"), 1, ap)
                  [] sub = "M" -> Directive(amd64_emit_am(n, "*" \in mod), 1, ap)
                  [] OTHER -> Directive(amd64_emit_addr(n.in_regs, n.addr), 0, ap)
          [] c = "C" -> Directive(amd64_emit_immediate64(n.immediate), 0, ap)
          [] c = "D" ->
                IF ~is_digit(sub) THEN unknown
                ELSE Directive(emit_R(n, mod, n.out_regs[DigitValue(sub)]), 1, ap)
          [] c = "E" -> Directive(Emitted(args[ap]), 0, ap + 1)
          [] c = "F" ->
                CASE sub = "M" ->
                        Directive(SuffixChar(get_x87_size_suffix(n.size)), 1, ap)
                  [] sub = "P" ->
                        Directive(Emitted(IF n.x87.pop THEN "p" ELSE ""), 1, ap)
                  [] sub = "0" -> Directive(Emitted("%" \o n.x87.reg), 1, ap)
                  [] sub = "R" ->
                        Directive(Emitted(IF n.x87.reverse THEN "r" ELSE ""), 1, ap)
                  [] OTHER -> unknown
          [] c = "L" -> Directive(Emitted(BlockName(n.target)), 0, ap)
          [] c = "P" ->
                IF sub = "X" THEN Directive(x86_emit_condition_code(args[ap]), 1, ap + 1)
                ELSE IF is_digit(sub)
                     THEN Directive(x86_emit_condition_code(n.cc), 1, ap)
                     ELSE unknown
          [] c = "R" -> Directive(emit_R(n, mod, args[ap]), 0, ap + 1)
          [] c = "S" ->
                IF sub = "O" THEN Directive(emit_shiftop(n), 1, ap)
                ELSE IF ~is_digit(sub) THEN unknown
                ELSE Directive(emit_R(n, mod, n.in_regs[DigitValue(sub)]), 1, ap)
          [] c = "M" ->
                CASE sub \in {"S", "M"} ->
                        Directive(SuffixChar(get_gp_size_suffix(n.size)), 1, ap)
                  [] sub = "X" ->
                        Directive(SuffixChar(get_xmm_size_suffix(n.size)), 1, ap)
                  [] OTHER ->
                        Directive(SuffixChar(get_gp_size_suffix(n.size)), 0, ap)
          [] c = "d" -> Directive(Emitted(FormatD(args[ap])), 0, ap + 1)
          [] c = "s" -> Directive(Emitted(args[ap]), 0, ap + 1)
          [] c = "u" -> Directive(Emitted(ToString(args[ap])), 0, ap + 1)
          [] OTHER -> unknown

NewLine_no_tab ==
    << Piece("be_emit_char", "\n"), Piece("be_emit_write_line", "") >>

\* the three calls a newline of the template turns into
NewLine ==
    << Piece("be_emit_char", "\n"), Piece("be_emit_write_line", ""),
       Piece("be_emit_char", "\t") >>

\* the loop of amd64_emitf from position i of the template, with ap the next
\* variadic argument and buf the calls made so far
RECURSIVE amd64_emitf_loop(_, _, _, _, _, _)
amd64_emitf_loop(n, fmt, args, i, ap, buf) ==
    LET j    == LiteralEnd(fmt, i)
        buf1 == IF j # i
                THEN Append(buf, Piece("be_emit_string_len", Concat(fmt, i, j)))
                ELSE buf
    IN  IF At(fmt, j) = "\n"
        THEN amd64_emitf_loop(n, fmt, args, j + 1, ap, buf1 \o NewLine)
        ELSE IF At(fmt, j) = NUL
        THEN [panicked |-> FALSE,
              out |-> Append(buf1, Piece("be_emit_finish_line_gas", ""))]
        ELSE LET m   == ModifiersEnd(fmt, j + 1)
                 mod == { At(fmt, k) : k \in j + 1 .. m - 1 }
                 d   == amd64_emitf_directive(n, mod, At(fmt, m), At(fmt, m + 1),
                                              args, ap)
             IN  IF d.panicked
                 THEN [panicked |-> TRUE, out |-> buf1 \o d.pieces]
                 ELSE amd64_emitf_loop(n, fmt, args, m + 1 + d.used, d.ap,
                                       buf1 \o d.pieces)

amd64_emitf(n, fmt, args) ==
    amd64_emitf_loop(n, fmt, args, 1, 1, << Piece("be_emit_char", "\t") >>)

\* the templates of the emitters, character by character
CallTemplate ==
    << "c", "a", "l", "l", " ", "%", "*", "A", "M" >>

JmpTemplate ==
    << "j", "m", "p", " ", "%", "L" >>

FallthroughTemplate ==
    << "/", "*", " ", "f", "a", "l", "l", "t", "h", "r", "o", "u", "g", "h",
       " ", "t", "o", " ", "%", "L", " ", "*", "/" >>

MovbTemplate ==
    << "m", "o", "v", "b", " ", "%", "A", "M", ",", " ", "%", "D", "0" >>

MovzbqTemplate ==
    << "m", "o", "v", "z", "b", "q", " ", "%", "A", "M", ",", " ", "%", "^",
       "D", "0" >>

MovzwqTemplate ==
    << "m", "o", "v", "z", "w", "q", " ", "%", "A", "M", ",", " ", "%", "^",
       "D", "0" >>

MovlTemplate ==
    << "m", "o", "v", "l", " ", "%", "A", "M", ",", " ", "%", "3", "D", "0" >>

MovqTemplate ==
    << "m", "o", "v", "q", " ", "%", "A", "M", ",", " ", "%", "^", "D", "0" >>

\* a panic before anything was written
NothingEmitted == [panicked |-> TRUE, out |-> << >>]

\* two calls of amd64_emitf one after the other
ThenEmit(a, b) ==
    IF a.panicked THEN a
    ELSE [panicked |-> b.panicked, out |-> a.out \o b.out]

emit_amd64_mov_gp_truncating(n) ==
    IF n.size = "INSN_SIZE_8" THEN amd64_emitf(n, MovbTemplate, << >>)
    ELSE amd64_emitf(n, MovqTemplate, << >>)

emit_amd64_mov_gp(n) ==
    CASE n.size = "INSN_SIZE_8" -> amd64_emitf(n, MovzbqTemplate, << >>)
      [] n.size = "INSN_SIZE_16" -> amd64_emitf(n, MovzwqTemplate, << >>)
      [] n.size = "INSN_SIZE_32" -> amd64_emitf(n, MovlTemplate, << >>)
      [] n.size = "INSN_SIZE_64" -> amd64_emitf(n, MovqTemplate, << >>)
      [] OTHER -> NothingEmitted

\* is_fallthrough: the Proj sits in the block of the node it projects from
is_fallthrough(sched, proj) ==
    fallthrough_possible(sched, proj.block, be_emit_get_cfop_target(proj))

emit_amd64_call_jmp_always(sched, opts, n) ==
    ThenEmit(amd64_emitf(n, CallTemplate, << >>),
             IF ~n.is_cfop \/ n.x_regular = NoNode
             THEN [panicked |-> FALSE, out |-> << >>]
             ELSE amd64_emitf(n.x_regular, JmpTemplate, << >>))

\* emit_amd64_call; n.x_regular is get_Proj_for_pn(node, pn_x_regular)
emit_amd64_call(sched, opts, n) ==
    ThenEmit(amd64_emitf(n, CallTemplate, << >>),
             IF ~n.is_cfop \/ n.x_regular = NoNode
             THEN [panicked |-> FALSE, out |-> << >>]
             ELSE IF is_fallthrough(sched, n.x_regular)
                  THEN IF opts.verbose_asm
                       THEN amd64_emitf(n.x_regular, FallthroughTemplate, << >>)
                       ELSE [panicked |-> FALSE, out |-> << >>]
                  ELSE amd64_emitf(n.x_regular, JmpTemplate, << >>))

\* most modifier flags in front of one directive, and most literal runs
\* and newlines on either side of it
MaxMods == 2
MaxRuns == 1

\* what amd64_emitf reads of a node besides its operands: the x87 attribute,
\* the 64-bit immediate, the condition code, the shift count and the block
\* a control-flow node leads to
EmitfDefaults ==
    [x87 |-> [reg |-> "st1", res_in_reg |-> FALSE, pop |-> TRUE, reverse |-> TRUE],
     immediate |-> [kind |-> "X86_IMM_VALUE", entity |-> NoEntity, offset |-> 255],
     cc |-> x86_cc_equal,
     shift_immediate |-> 3,
     target |-> 2]

\* the addressing mode of a register operand
RegAddr(b) ==
    [immediate |-> [kind |-> "X86_IMM_VALUE", entity |-> NoEntity, offset |-> 0],
     base_input |-> b, index_input |-> 0, log_scale |-> 0,
     variant |-> "X86_ADDR_REG"]

\* the immediates of an operand: a value and a relocation
OperandImms ==
    { [kind |-> "X86_IMM_VALUE", entity |-> NoEntity, offset |-> -MaxDisp],
      [kind |-> "X86_IMM_ADDR", entity |-> "e1", offset |-> 0] }

\* the addressing modes of a memory operand
MemAddrs ==
    [immediate : OperandImms
                 \cup {[kind |-> "X86_IMM_VALUE", entity |-> NoEntity, offset |-> 0]},
     base_input : {0}, index_input : {1}, log_scale : {2},
     variant : {"X86_ADDR_BASE", "X86_ADDR_BASE_INDEX", "X86_ADDR_RIP"}]

\* amd64_op_mode_t
OpModes ==
    {"AMD64_OP_NONE", "AMD64_OP_ADDR", "AMD64_OP_REG", "AMD64_OP_REG_ADDR",
     "AMD64_OP_REG_REG", "AMD64_OP_REG_IMM", "AMD64_OP_IMM32", "AMD64_OP_IMM64",
     "AMD64_OP_ADDR_REG", "AMD64_OP_ADDR_IMM", "AMD64_OP_SHIFT_REG",
     "AMD64_OP_SHIFT_IMM", "AMD64_OP_X87", "AMD64_OP_X87_ADDR_REG",
     "AMD64_OP_CC"}

\* the addressing mode and the union u that go with an operand mode: the
\* register modes carry the variant X86_ADDR_REG
AmOperands(m) ==
    CASE m = "AMD64_OP_REG_IMM" ->
            [addr : {RegAddr(0), RegAddr(1)}, u : [immediate : OperandImms]]
      [] m \in {"AMD64_OP_REG_REG", "AMD64_OP_REG"} ->
            [addr : {RegAddr(0), RegAddr(1)}, u : [reg_input : {1}]]
      [] m \in {"AMD64_OP_REG_ADDR", "AMD64_OP_ADDR_REG"} ->
            [addr : MemAddrs, u : [reg_input : {0, 1}]]
      [] m = "AMD64_OP_ADDR_IMM" ->
            [addr : MemAddrs, u : [immediate : OperandImms]]
      [] m \in {"AMD64_OP_ADDR", "AMD64_OP_X87_ADDR_REG"} ->
            [addr : MemAddrs, u : [reg_input : {0}]]
      [] m = "AMD64_OP_IMM32" ->
            [addr : { [RegAddr(0) EXCEPT !.immediate = i,
                                         !.variant = "X86_ADDR_JUST_IMM"]
                      : i \in OperandImms },
             u : [reg_input : {0}]]
      [] OTHER -> [addr : {RegAddr(0)}, u : [reg_input : {0}]]

\* the nodes whose operands amd64_emit_am writes
AmNodes ==
    UNION { { [op_mode |-> m, size |-> z, addr |-> o.addr, u |-> o.u,
               in_regs |-> r, out_regs |-> w] @@ EmitfDefaults
              : z \in AllInsnSizes, o \in AmOperands(m), r \in InputRegisters,
                w \in { [p \in {0} |-> "REG_RAX"], [p \in {0} |-> "REG_R8"] } }
            : m \in OpModes }

\* a node with a memory operand, of the given size and with every register r
EmitfNode(z, r) ==
    [op_mode |-> "AMD64_OP_ADDR", size |-> z,
     addr |-> [RegAddr(0) EXCEPT !.variant = "X86_ADDR_BASE"],
     u |-> [reg_input |-> 0],
     in_regs |-> [p \in {0, 1} |-> r], out_regs |-> [p \in {0, 1} |-> r]]
    @@ EmitfDefaults

\* the runs of modifier flags in front of a directive letter
ModifierRuns ==
    { s \in UNION { [1 .. k -> ModifierChars] : k \in 0 .. MaxMods } :
        \A i, j \in 1 .. Len(s) : i # j => s[i] # s[j] }

\* the directive letters of amd64_emitf, and two it does not know
DirectiveLetters ==
    {"%", "A", "C", "D", "E", "F", "L", "P", "R", "S", "M", "d", "s", "u"}

LetterChars == DirectiveLetters \cup {"Z", "x"}

\* what follows a directive letter: nothing, a digit, a sub-letter some
\* directive knows, or one none knows
SubChars ==
    { << >>, << "0" >>, << "1" >>, << "F" >>, << "M" >>, << "O" >>, << "P" >>,
      << "R" >>, << "S" >>, << "X" >>, << "Z" >> }

\* a directive: the percent sign, the flags, the letter and what follows it
DirectiveTokens ==
    { [mods |-> m, letter |-> c, sub |-> s]
      : m \in ModifierRuns, c \in LetterChars, s \in SubChars }

DirectiveChars(d) == << "%" >> \o d.mods \o << d.letter >> \o d.sub

\* the literal text and the newlines around a directive
RunTokens == { << "n", "o", "p" >>, << "\n" >> }

RECURSIVE Flatten(_)
Flatten(runs) == IF runs = << >> THEN << >>
                 ELSE Head(runs) \o Flatten(Tail(runs))

Runs == UNION { [1 .. k -> RunTokens] : k \in 0 .. MaxRuns }

\* the variadic arguments a directive letter fetches
ArgsFor(letter) ==
    CASE letter \in {"E", "s"} -> << "e1" >>
      [] letter = "P" -> << x86_cc_less >>
      [] letter = "R" -> << "REG_RCX" >>
      [] letter \in {"d", "u"} -> << MaxDisp >>
      [] OTHER -> << >>

\* the registers of the register directives
DirectiveRegisters == {"REG_RAX", "REG_R8", "REG_XMM0"}

\* the register directives
RegisterDirectives ==
    { [mods |-> m, letter |-> t[1], sub |-> Tail(t)]
      : m \in ModifierRuns,
        t \in { << "D", "0" >>, << "S", "0" >>, << "S", "1" >>, << "R" >> } }

\* a call of amd64_emitf: the template is the runs before the directive, the
\* directive and the runs after it
EmitfCall(n, a, d, b, args) ==
    [fn |-> "amd64_emitf", n |-> n, pre |-> a, directive |-> d, post |-> b,
     fmt |-> Flatten(a) \o DirectiveChars(d) \o Flatten(b), args |-> args]

\* the Projs a call can have for its regular exit
CallProjs(sched, b) ==
    { [kind |-> "Proj", block |-> b, target |-> t] : t \in Blocks(sched) }

\* the operand of a call: an address, a register, or the callee's entity
\* as a 32-bit immediate
CalleeAddr(m) ==
    CASE m = "AMD64_OP_ADDR" -> [RegAddr(0) EXCEPT !.variant = "X86_ADDR_BASE"]
      [] m = "AMD64_OP_REG" -> RegAddr(0)
      [] m = "AMD64_OP_IMM32" ->
            [RegAddr(0) EXCEPT !.variant = "X86_ADDR_JUST_IMM",
                               !.immediate = [kind |-> "X86_IMM_ADDR",
                                              entity |-> "e1", offset |-> 0]]

\* the call nodes of a function with the given schedule
CallNodes(sched) ==
    UNION { { [op_mode |-> m, size |-> "INSN_SIZE_64", addr |-> CalleeAddr(m),
               u |-> [reg_input |-> 0], in_regs |-> [p \in {0, 1} |-> "REG_RAX"],
               out_regs |-> [p \in {0} |-> "REG_RAX"],
               is_cfop |-> c, block |-> b, x_regular |-> x] @@ EmitfDefaults
              : m \in {"AMD64_OP_ADDR", "AMD64_OP_REG", "AMD64_OP_IMM32"},
                c \in BOOLEAN, x \in {NoNode} \cup CallProjs(sched, b) }
            : b \in Blocks(sched) }

\* the calls of the emitters: amd64_emitf with a directive between literal
\* runs on a fixed node, amd64_emitf with a register directive on nodes of
\* every size and register, amd64_emit_am and emit_amd64_mov_gp on every
\* operand mode, and emit_amd64_call; only emit_amd64_call reads the options
InitEmitf ==
    /\ \/ \E a \in Runs, d \in DirectiveTokens, b \in Runs :
             node = EmitfCall(EmitfNode("INSN_SIZE_64", "REG_RAX"), a, d, b,
                              ArgsFor(d.letter))
       \/ \E z \in AllInsnSizes, r \in DirectiveRegisters,
             d \in RegisterDirectives :
             node = EmitfCall(EmitfNode(z, r), << >>, d, << >>, << r >>)
       \/ \E n \in AmNodes, s \in BOOLEAN :
             node = [fn |-> "amd64_emit_am", n |-> n, indirect_star |-> s]
       \/ \E n \in AmNodes : node = [fn |-> "emit_amd64_mov_gp", n |-> n]
       \/ \E s \in BlockSchedules : \E n \in CallNodes(s) :
             node = [fn |-> "emit_amd64_call", sched |-> s, n |-> n]
    /\ be_options \in [verbose_asm : BOOLEAN, pic_style : {BE_PIC_NONE}]
    /\ be_options.verbose_asm => node.fn = "emit_amd64_call"
    /\ pc = "emit"
    /\ irg = NoIrg
    /\ nfuncs = 0
    /\ bi = 0
    /\ ni = 0
    /\ omit_fp = FALSE
    /\ frame_type_size = 0
    /\ callframe_offset = 0
    /\ layout = 0
    /\ writer = [omit_fp |-> 0, frame_type_size |-> 0, callframe_offset |-> 0,
                 layout |-> 0]
    /\ observed = {}
    /\ out = << >>
    /\ dwarf = [reg |-> "none", offset |-> 0, n |-> 0]
    /\ blk = NoBlock
    /\ text = << >>
    /\ cmp = NoCmp
    /\ result = NoResult

\* an emitter made the calls e.out of the output buffer, or panicked after
\* them
WroteLines(e) ==
    /\ pc' = IF e.panicked THEN "panic" ELSE "formatted"
    /\ text' = e.out
    /\ FmtFrame

\* amd64_emit_am on its own: what it wrote is one piece
EmitAm ==
    /\ pc = "emit" /\ node.fn = "amd64_emit_am"
    /\ LET e == amd64_emit_am(node.n, node.indirect_star)
       IN  WroteLines([panicked |-> e.panicked,
                       out |-> IF e.text = "" THEN << >>
                               ELSE << Piece("emit", e.text) >>])

Emitf ==
    /\ pc = "emit" /\ node.fn = "amd64_emitf"
    /\ WroteLines(amd64_emitf(node.n, node.fmt, node.args))

EmitMovGp ==
    /\ pc = "emit" /\ node.fn = "emit_amd64_mov_gp"
    /\ WroteLines(emit_amd64_mov_gp(node.n))

EmitCall ==
    /\ pc = "emit" /\ node.fn = "emit_amd64_call"
    /\ WroteLines(emit_amd64_call(node.sched, be_options, node.n))

NextEmitf == EmitAm \/ Emitf \/ EmitMovGp \/ EmitCall

SpecEmitf == InitEmitf /\ [][NextEmitf]_vars

\* everything the calls of the output buffer wrote, in order
RECURSIVE Written(_)
Written(pieces) == IF pieces = << >> THEN ""
                   ELSE Head(pieces).s \o Written(Tail(pieces))

(* ------------------------------------------ claims on the emission templates *)

\* the pieces of one line: the tab, what the template wrote, the finish
Line(parts) ==
    << Piece("be_emit_char", "\t") >> \o parts
    \o << Piece("be_emit_finish_line_gas", "") >>

\* C24: emit_amd64_mov_gp writes movzbq for size 8 and movzwq for size 16,
\* both with the 64-bit name of the destination, movl with the 32-bit name
\* for size 32, movq with the 64-bit name for size 64, and panics on sizes 80
\* and 128; movb and movw are never written.
C24_MovGpZeroExtends ==
    Called("emit_amd64_mov_gp") =>
        LET n      == node.n
            am     == amd64_emit_am(n, FALSE)
            dest   == n.out_regs[0]
            Mov(mnemonic, name) ==
                /\ pc = "formatted"
                /\ text = Line(<< Piece("be_emit_string_len", mnemonic \o " ") >>
                               \o (IF am.text = "" THEN << >>
                                   ELSE << Piece("emit", am.text) >>)
                               \o << Piece("be_emit_string_len", ", "),
                                     Piece("emit", "%" \o name) >>)
        IN  CASE n.size \in {"INSN_SIZE_80", "INSN_SIZE_128"} ->
                    pc = "panic" /\ text = << >>
              [] n.size \notin {"INSN_SIZE_80", "INSN_SIZE_128"} /\ am.panicked ->
                    pc = "panic"
              [] n.size = "INSN_SIZE_8" /\ ~am.panicked ->
                    Mov("movzbq", ArchMnemonic(dest, 64))
              [] n.size = "INSN_SIZE_16" /\ ~am.panicked ->
                    Mov("movzwq", ArchMnemonic(dest, 64))
              [] n.size = "INSN_SIZE_32" /\ ~am.panicked ->
                    Mov("movl", ArchMnemonic(dest, 32))
              [] n.size = "INSN_SIZE_64" /\ ~am.panicked ->
                    Mov("movq", ArchMnemonic(dest, 64))

\* an 8-bit load from (%rax) into r8
C24_Witness ==
    /\ pc = "formatted"
    /\ node.fn = "emit_amd64_mov_gp"
    /\ node.n.size = "INSN_SIZE_8"
    /\ Written(text) = "\tmovzbq (%rax), %r8"

\* the literal text of the runs around a directive, and their newlines
LiteralText(runs) == Written([i \in 1 .. Len(runs) |->
                                [s |-> IF runs[i] = << "\n" >> THEN ""
                                       ELSE Concat(runs[i], 1, Len(runs[i]) + 1)]])
NewLines(runs) == Cardinality({ i \in 1 .. Len(runs) : runs[i] = << "\n" >> })

\* the positions of text where the output buffer was called as f with s
PiecesAt(f, s) == { i \in 1 .. Len(text) : text[i] = Piece(f, s) }

\* C25: for every template amd64_emitf runs to its end, the output starts
\* with one tab, every newline of the template gives a line break followed by
\* one tab, the literal text is copied unchanged and in order, and the line
\* is finished once, after the end of the template.
C25_TabsNewlinesLiterals ==
    (Called("amd64_emitf") /\ pc = "formatted") =>
        /\ text[1] = Piece("be_emit_char", "\t")
        /\ Cardinality(PiecesAt("be_emit_char", "\n"))
              = NewLines(node.pre) + NewLines(node.post)
        /\ \A i \in PiecesAt("be_emit_char", "\n") :
              /\ text[i + 1] = Piece("be_emit_write_line", "")
              /\ text[i + 2] = Piece("be_emit_char", "\t")
        /\ PiecesAt("be_emit_char", "\t")
              = {1} \cup { i + 2 : i \in PiecesAt("be_emit_char", "\n") }
        /\ node.directive.sub = << >> =>
              Written(SelectSeq(text, LAMBDA p : p.f = "be_emit_string_len"))
                 = LiteralText(node.pre) \o LiteralText(node.post)
        /\ PiecesAt("be_emit_finish_line_gas", "") = {Len(text)}

\* a newline, a percent sign and a literal run
C25_Witness ==
    /\ pc = "formatted"
    /\ node.fn = "amd64_emitf"
    /\ node.fmt = << "\n", "%", "%", "n", "o", "p" >>
    /\ text = << Piece("be_emit_char", "\t"), Piece("be_emit_char", "\n"),
                 Piece("be_emit_write_line", ""), Piece("be_emit_char", "\t"),
                 Piece("be_emit_char", "%"), Piece("be_emit_string_len", "nop"),
                 Piece("be_emit_finish_line_gas", "") >>

\* the characters a directive letter knows behind it
KnownSubChars(letter) ==
    CASE letter = "A" -> {"F", "M"}
      [] letter = "F" -> {"M", "P", "0", "R"}
      [] letter = "M" -> {"S", "M", "X"}
      [] letter = "P" -> {"X"} \cup DigitChars
      [] letter = "S" -> {"O"} \cup DigitChars
      [] letter = "D" -> DigitChars
      [] OTHER -> {}

\* the modifier flags a directive reads
UsedModifiers(d) ==
    CASE d.letter = "A" /\ d.sub = << "M" >> -> {"*"}
      [] d.letter = "R" -> {"^", "3", "#"}
      [] d.letter \in {"D", "S"} /\ d.sub # << >> /\ is_digit(d.sub[1]) ->
            {"^", "3", "#"}
      [] OTHER -> {}

\* C26: amd64_emitf panics on every template with a directive letter it
\* does not know, with a character it does not know behind one of the
\* letters A, F, M, P, S and D, or with a modifier flag in front of a
\* directive that does not read that flag.
C26_MalformedTemplatePanics ==
    Called("amd64_emitf") =>
        LET d == node.directive
        IN  ( \/ d.letter \notin DirectiveLetters
              \/ /\ d.letter \in {"A", "F", "M", "P", "S", "D"}
                 /\ d.sub # << >>
                 /\ d.sub[1] \notin KnownSubChars(d.letter)
              \/ \E i \in 1 .. Len(d.mods) : d.mods[i] \notin UsedModifiers(d) )
            => pc = "panic"

\* the register a register directive names
DirectiveRegister(c) ==
    CASE c.directive.letter = "R" -> c.args[1]
      [] c.directive.letter = "D" -> c.n.out_regs[DigitValue(c.directive.sub[1])]
      [] c.directive.letter = "S" -> c.n.in_regs[DigitValue(c.directive.sub[1])]

\* C27: the register directives pick the name by precedence: ^ gives the
\* full name; else 3 gives the 32-bit name; else # gives the 64-bit name for
\* a node of size 64 and the 32-bit name for any other size; else the name at
\* the node's own size. An xmm register is written with its full name
\* whatever the flags and the size.
C27_RegisterNamePrecedence ==
    ( /\ Called("amd64_emitf")
      /\ node.directive \in RegisterDirectives
      /\ node.pre = << >> /\ node.post = << >> ) =>
        LET reg  == DirectiveRegister(node)
            mods == { node.directive.mods[i] : i \in 1 .. Len(node.directive.mods) }
            bits == amd64_get_insn_size_bits(node.n.size)
            name == IF RegClass(reg) = "CLASS_amd64_xmm" THEN RegName(reg)
                    ELSE IF "^" \in mods THEN RegName(reg)
                    ELSE IF "3" \in mods THEN ArchMnemonic(reg, 32)
                    ELSE IF "#" \in mods
                         THEN ArchMnemonic(reg, IF bits = 64 THEN 64 ELSE 32)
                    ELSE IF bits \in {8, 16, 32, 64} THEN ArchMnemonic(reg, bits)
                    ELSE RegName(reg)
        IN  /\ pc = "formatted"
            /\ text = Line(<< Piece("emit", "%" \o name) >>)

\* force-32 in front of conversion-destination on a 64-bit node: r8d
C27_Witness ==
    /\ pc = "formatted"
    /\ node.fn = "amd64_emitf"
    /\ node.fmt = << "%", "#", "3", "D", "0" >>
    /\ node.n.size = "INSN_SIZE_64"
    /\ text = Line(<< Piece("emit", "%r8d") >>)

\* C30: amd64_emit_am writes source before destination as the operand mode
\* says: REG_IMM $imm, reg; REG_REG reg of input 1, reg of the base input;
\* REG_ADDR addr, reg; ADDR_REG reg, addr; ADDR_IMM $imm, addr. The star is
\* written only for ADDR, X87_ADDR_REG and REG and only when asked for; X87
\* writes nothing; IMM64, NONE, SHIFT_REG, SHIFT_IMM and CC panic.
C30_OperandOrder ==
    Called("amd64_emit_am") =>
        LET n      == node.n
            imm    == amd64_emit_immediate32(TRUE, n.u.immediate).text
            addr   == amd64_emit_addr(n.in_regs, n.addr).text
            reg(i) == emit_register_mode(n.in_regs[i], n.size).text
            star   == IF node.indirect_star THEN "*" ELSE ""
            Is(str) == pc = "formatted" /\ Written(text) = str
        IN  CASE n.op_mode = "AMD64_OP_REG_IMM" ->
                    Is(imm \o ", " \o reg(n.addr.base_input))
              [] n.op_mode = "AMD64_OP_REG_REG" ->
                    Is(reg(1) \o ", " \o reg(n.addr.base_input))
              [] n.op_mode = "AMD64_OP_REG_ADDR" ->
                    Is(addr \o ", " \o reg(n.u.reg_input))
              [] n.op_mode = "AMD64_OP_ADDR_REG" ->
                    Is(reg(n.u.reg_input) \o ", " \o addr)
              [] n.op_mode = "AMD64_OP_ADDR_IMM" -> Is(imm \o ", " \o addr)
              [] n.op_mode \in {"AMD64_OP_ADDR", "AMD64_OP_X87_ADDR_REG"} ->
                    Is(star \o addr)
              [] n.op_mode = "AMD64_OP_REG" -> Is(star \o reg(n.addr.base_input))
              [] n.op_mode = "AMD64_OP_IMM32" ->
                    Is(amd64_emit_immediate32(FALSE, n.addr.immediate).text)
              [] n.op_mode = "AMD64_OP_X87" -> pc = "formatted" /\ text = << >>
              [] OTHER -> pc = "panic" /\ text = << >>

\* a 32-bit store of rcx to -8(%rax): the register first
C30_Witness ==
    /\ pc = "formatted"
    /\ node.fn = "amd64_emit_am"
    /\ node.n.op_mode = "AMD64_OP_ADDR_REG"
    /\ node.n.size = "INSN_SIZE_32"
    /\ Written(text) = "%ecx, -" \o ToString(MaxDisp) \o "(%rax)"

\* the lines of a call: the call, the jump to a block and the comment
CallLine(operand) ==
    Line(<< Piece("be_emit_string_len", "call "), Piece("emit", operand) >>)

JmpLine(block) ==
    Line(<< Piece("be_emit_string_len", "jmp "), Piece("emit", BlockName(block)) >>)

CommentLine(block) ==
    Line(<< Piece("be_emit_string_len", "/* fallthrough to "),
            Piece("emit", BlockName(block)),
            Piece("be_emit_string_len", " */") >>)

\* target is scheduled right behind block
FollowsInSchedule(sched, block, target) ==
    \E i \in 1 .. Len(sched) - 1 : sched[i] = block /\ sched[i + 1] = target

\* the operand of a call as amd64_emit_addr, emit_register and
\* amd64_emit_immediate32 write it
CallOperand(n) ==
    CASE n.op_mode = "AMD64_OP_ADDR" -> amd64_emit_addr(n.in_regs, n.addr).text
      [] n.op_mode = "AMD64_OP_REG" -> emit_register(n.in_regs[n.addr.base_input])
      [] n.op_mode = "AMD64_OP_IMM32" ->
            amd64_emit_immediate32(FALSE, n.addr.immediate).text

\* what emit_amd64_call wrote is the call line with the given operand and,
\* for a control-flow call with a regular exit, the jump to the regular
\* successor exactly when that block is not scheduled right behind the
\* call's block; a comment may stand in for the jump that is left out
CallThenJump(operand) ==
    LET n == node.n
        x == n.x_regular
    IN  /\ pc = "formatted"
        /\ IF n.is_cfop /\ x # NoNode
           THEN IF FollowsInSchedule(node.sched, n.block, x.target)
                THEN text \in { CallLine(operand),
                                CallLine(operand) \o CommentLine(x.target) }
                ELSE text = CallLine(operand) \o JmpLine(x.target)
           ELSE text = CallLine(operand)

\* C29 as stated: the call line is always "call *<operand>".
C29_Original ==
    Called("emit_amd64_call") => CallThenJump("*" \o CallOperand(node.n))

\* C29: emit_amd64_call first writes "call " and the operand, with the star
\* in front of an address or a register and none in front of a 32-bit
\* immediate; a control-flow call with a regular exit is followed by the
\* jump to the regular successor exactly when that block does not follow the
\* call's block in the schedule; otherwise nothing follows the call.
C29_CallThenJump ==
    Called("emit_amd64_call") =>
        CallThenJump((IF node.n.op_mode = "AMD64_OP_IMM32" THEN "" ELSE "*")
                     \o CallOperand(node.n))

\* a call of the entity e1 in block 1 whose regular exit leads to block 3
C29_Witness ==
    /\ pc = "formatted"
    /\ node.fn = "emit_amd64_call"
    /\ node.sched = << 1, 2, 3 >>
    /\ node.n.block = 1
    /\ text = CallLine("e1") \o JmpLine(3)

(* ------------------------------------- claims on the call-frame offset per block *)

\* C28: with frame-pointer omission active, the step that begins a block
\* sets the running call-frame offset to 8 for the function's start block
\* and to 8 plus the frame type size for any other block, whatever it was
\* before; every node emitted in the block then adds its stack-pointer delta,
\* so the offset is always that base plus the deltas of the nodes emitted so
\* far in the current block.
C28_OffsetResetPerBlock ==
    [][ omit_fp =>
          /\ (pc = "sched" /\ pc' = "block") =>
                callframe_offset' = IF blk' = irg.start_block
                                    THEN 8
                                    ELSE 8 + irg.frame_type_size
          /\ pc = "block" => callframe_offset' = callframe_offset + node'.sp_bias
      ]_vars

\* in a block behind the start block of a function with a 16-byte frame, the
\* first node emitted declared a delta of 8
C28_Witness ==
    /\ omit_fp
    /\ irg.frame_type_size = 16
    /\ blk # NoBlock /\ blk # irg.start_block
    /\ ni = 1
    /\ node.sp_bias = 8
    /\ callframe_offset = 32

====
